---- MODULE Spec2Model ----
(***************************************************************************)
(* Terrain generation of the roguelike tutorial (src/src/terrain.rs):      *)
(* rooms and corridors, cave automaton, composition, water trim,           *)
(* reachability pruning, door repair and the final spawn loop.             *)
(*                                                                         *)
(* A coordinate is <<x, y>>, a size is <<width, height>>, a grid is a      *)
(* function from the coordinates of its size to its cells.  Every draw     *)
(* from the random generator is a nondeterministic choice.  A panic of the *)
(* program (empty sampling range, unsigned underflow, out-of-bounds        *)
(* get_checked, unwrap of None) moves pc to "panicked".                    *)
(*                                                                         *)
(* The moves of the player in the game (src/src/game.rs) are modelled in   *)
(* the section "The game", on the world that game.rs builds.               *)
(***************************************************************************)
EXTENDS Integers, Sequences, FiniteSets

VARIABLES
    world_size,       \* the Size handed to Terrain::generate
    pc,               \* position inside Terrain::generate
    attempt,          \* room attempts made so far (loop counter of generate)
    rooms,            \* RoomPlacement.rooms
    edge_coords,      \* RoomPlacement.edge_coords
    door_candidates,  \* RoomPlacement.door_candidates
    map,              \* RoomPlacement.map (stage-1 grid)
    rc_map,           \* RoomsAndCorridorsLevel.map (stage-2 grid)
    player_spawn,     \* RoomsAndCorridorsLevel.player_spawn
    game_of_life,     \* the GameOfLife of generate_initial_cave_map: [alive, next]
    life_steps,       \* steps of the automaton made so far (its loop counter)
    cave_map,         \* result of generate_cave_map (stage-1 grid)
    combined_map,     \* stage-3 grid
    water_map,        \* water mask
    grass_map,        \* grass mask
    world,            \* entities spawned at each coordinate, in spawn order
    noise,            \* make_water_map: the mask `noise > 0.65`, before the trim
    rng_log,          \* the stages that have drawn from rng, in the order of the draws
    adding,           \* try_add_room in progress: [rect, chosen, axes, i]
    corridor_state,   \* l_shaped_corridor_with_first_axis in progress
    fill,             \* flood fill in progress: [to_visit, seen, pushed]
    game              \* the Game of src/src/game.rs: [world, player_entity,
                      \* visibility_grid, config]

vars == <<world_size, pc, attempt, rooms, edge_coords, door_candidates, map,
          rc_map, player_spawn, game_of_life, life_steps, cave_map, combined_map,
          water_map, grass_map, world, noise, rng_log, adding, corridor_state,
          fill, game>>

-----------------------------------------------------------------------------
(* Bounds of the model *)

\* width and height of the world that admits rooms
WorldW == 10
WorldH == 7
\* side of the world that is too small for any room
SmallSide == 4
\* exclusive upper bounds of the room size draws (the program uses 11 and 9)
MaxRoomW == 7
MaxRoomH == 6
\* number of room attempts (the program makes 50)
NumRoomAttempts == 2
\* side of the grid on which the automaton is run from every initial grid
LifeSide == 3
\* side of the grid whose cave grid is built from every pattern of a block
CaveSide == 5
\* width and height of the world in which three rooms are placed, and the
\* number of the attempts made in it
PlaceW == 14
PlaceH == 7
PlaceAttempts == 3
\* width and height of the world of the game (the application uses 60 and 45)
GameW == 13
GameH == 12
\* width and height of the world in which the second room is connected
ConnectW == 11
ConnectH == 8

(* Constants of the program *)
MIN_ROOM_W == 5
MIN_ROOM_H == 5

-----------------------------------------------------------------------------
(* Coordinates, sizes and grids (gridbugs coord_2d / grid_2d / direction) *)

Coords(size) == (0 .. size[1] - 1) \X (0 .. size[2] - 1)

NewCopy(size, v) == [c \in Coords(size) |-> v]

Plus(c, d) == <<c[1] + d[1], c[2] + d[2]>>

Minus(c, d) == <<c[1] - d[1], c[2] - d[2]>>

\* Grid::get: None outside the grid
InGrid(grid, c) == c \in DOMAIN grid

\* CardinalDirection::all(): North, East, South, West
CardinalDirections == << <<0, -1>>, <<1, 0>>, <<0, 1>>, <<-1, 0>> >>

\* Direction::all(): North, NorthEast, East, SouthEast, South, SouthWest, West, NorthWest
Directions ==
    << <<0, -1>>, <<1, -1>>, <<1, 0>>, <<1, 1>>, <<0, 1>>, <<-1, 1>>, <<-1, 0>>, <<-1, -1>> >>

\* Coord::get(axis)
AxisGet(c, axis) == IF axis = "X" THEN c[1] ELSE c[2]

\* Axis::other
OtherAxis(axis) == IF axis = "X" THEN "Y" ELSE "X"

\* Coord::new_axis(this_axis, other_axis, axis)
NewAxis(this, other, axis) == IF axis = "X" THEN <<this, other>> ELSE <<other, this>>

\* i32::signum
Signum(n) == IF n > 0 THEN 1 ELSE IF n < 0 THEN -1 ELSE 0

\* row-major enumeration of a size (Size::coord_iter_row_major, Grid::enumerate)
RowMajor(size) ==
    [i \in 1 .. size[1] * size[2] |-> <<(i - 1) % size[1], (i - 1) \div size[1]>>]

SeqToSet(s) == {s[i] : i \in 1 .. Len(s)}

-----------------------------------------------------------------------------
(* Rect and Room *)

MkRect(left, top, w, h) == [top_left |-> <<left, top>>, size |-> <<w, h>>]

\* Rect::coords
RectCoords(rect) ==
    {<<x, y>> : x \in rect.top_left[1] .. rect.top_left[1] + rect.size[1] - 1,
                y \in rect.top_left[2] .. rect.top_left[2] + rect.size[2] - 1}

\* Rect::is_edge (Size::is_on_edge of the coordinate relative to top_left)
IsEdge(rect, c) ==
    LET r == Minus(c, rect.top_left)
    IN  \/ r[1] = 0
        \/ r[2] = 0
        \/ r[1] = rect.size[1] - 1
        \/ r[2] = rect.size[2] - 1

\* Rect::edge_coords
EdgeCoords(rect) == {c \in RectCoords(rect) : IsEdge(rect, c)}

\* Rect::internal_coords
InternalCoords(rect) == {c \in RectCoords(rect) : ~IsEdge(rect, c)}

\* Rect::centre without the half size: the top-left corner
CentreAtTopLeft(rect) == rect.top_left

\* Rect::centre: top_left + size / 2
Centre(rect) ==
    <<rect.top_left[1] + rect.size[1] \div 2, rect.top_left[2] + rect.size[2] \div 2>>

\* Rect::choose: the size draws for which the program panics before it draws a
\* position: bounds - size underflows, or the range 0..(bounds - size) is empty
ChoosePanics(bounds, w, h) == bounds[1] - w <= 0 \/ bounds[2] - h <= 0

\* Rect::choose drawing the top-left corner from the bounds, not from the
\* bounds less the size
ChooseRectsAnywhere(bounds, w, h) ==
    {MkRect(left, top, w, h) : left \in 0 .. bounds[1] - 1, top \in 0 .. bounds[2] - 1}

\* Rect::choose: the rectangles it can return for the size draws w and h
ChooseRects(bounds, w, h) ==
    {MkRect(left, top, w, h) : left \in 0 .. bounds[1] - w - 1,
                               top \in 0 .. bounds[2] - h - 1}

\* Room::overlaps_with_floor looking at the floor of the room only
OverlapsWithFloorInside(rect, m) == \E c \in InternalCoords(rect) : m[c] = "Floor"

\* Room::overlaps_with_floor taking any cell of the grid for a floor
OverlapsWithFloorOrWall(rect, m) == \E c \in RectCoords(rect) : m[c] \in {"Floor", "Wall"}

\* Room::overlaps_with_floor
OverlapsWithFloor(rect, m) == \E c \in RectCoords(rect) : m[c] = "Floor"

\* Room::add_floor_to_map
AddFloorToMap(rect, m) ==
    [c \in DOMAIN m |-> IF c \in InternalCoords(rect) THEN "Floor" ELSE m[c]]

-----------------------------------------------------------------------------
(* Corridors *)

\* is_cell_in_corridor_axis, when none of its get_checked reads panics
IsCellInCorridorAxis(m, coord, axis) ==
    LET axis_delta == NewAxis(1, 0, axis)
        other_axis_delta == NewAxis(0, 1, axis)
        floor_in_axis ==
            m[Plus(coord, axis_delta)] = "Floor" /\ m[Minus(coord, axis_delta)] = "Floor"
        wall_in_other_axis ==
            m[Plus(coord, other_axis_delta)] = "Wall" /\ m[Minus(coord, other_axis_delta)] = "Wall"
    IN  floor_in_axis /\ wall_in_other_axis

\* is_cell_in_corridor_axis: one of the get_checked reads it makes is out of bounds
\* (the second read of each && is made only when the first comparison holds)
IsCellInCorridorAxisPanics(m, coord, axis) ==
    LET axis_delta == NewAxis(1, 0, axis)
        other_axis_delta == NewAxis(0, 1, axis)
    IN  \/ ~InGrid(m, Plus(coord, axis_delta))
        \/ m[Plus(coord, axis_delta)] = "Floor" /\ ~InGrid(m, Minus(coord, axis_delta))
        \/ ~InGrid(m, Plus(coord, other_axis_delta))
        \/ m[Plus(coord, other_axis_delta)] = "Wall" /\ ~InGrid(m, Minus(coord, other_axis_delta))

\* is_cell_in_corridor panics: in the X check, or in the Y check when X is false
IsCellInCorridorPanics(m, coord) ==
    \/ IsCellInCorridorAxisPanics(m, coord, "X")
    \/ /\ ~IsCellInCorridorAxis(m, coord, "X")
       /\ IsCellInCorridorAxisPanics(m, coord, "Y")

\* is_cell_in_corridor
IsCellInCorridor(m, coord) ==
    IsCellInCorridorAxis(m, coord, "X") \/ IsCellInCorridorAxis(m, coord, "Y")

\* has_floor_neighbour panics: a neighbour outside the grid is read before any
\* floor neighbour is found (any() stops at the first floor)
HasFloorNeighbourPanics(m, coord) ==
    \E i \in 1 .. 4 :
        /\ ~InGrid(m, Plus(coord, CardinalDirections[i]))
        /\ \A j \in 1 .. i - 1 :
               /\ InGrid(m, Plus(coord, CardinalDirections[j]))
               /\ m[Plus(coord, CardinalDirections[j])] # "Floor"

\* has_floor_neighbour that never finds a floor
HasFloorNeighbourNever(m, coord) == FALSE

\* has_floor_neighbour
HasFloorNeighbour(m, coord) ==
    \E i \in 1 .. 4 :
        /\ InGrid(m, Plus(coord, CardinalDirections[i]))
        /\ m[Plus(coord, CardinalDirections[i])] = "Floor"

\* l_shaped_corridor_with_first_axis up to its first loop: ret, delta, step, current.
\* leg is the loop the function is in (1, 2) or 0 once it has returned.
CorridorStart(start, end, first_axis) ==
    LET delta == Minus(end, start)
        step == NewAxis(Signum(AxisGet(delta, first_axis)), 0, first_axis)
    IN  [leg |-> 1, current |-> Plus(start, step), step |-> step, ret |-> <<>>,
         panic |-> FALSE]

\* the loop body that tests the floor neighbours before it pushes the cell
CorridorStepStopsShort(cs, start, end, m, first_axis) ==
    IF cs.leg = 1 /\ AxisGet(cs.current, first_axis) = AxisGet(end, first_axis)
    THEN [cs EXCEPT
            !.leg = 2,
            !.step = NewAxis(0, Signum(AxisGet(Minus(end, start), OtherAxis(first_axis))),
                             first_axis)]
    ELSE IF cs.leg = 2 /\ cs.current = end
    THEN [cs EXCEPT !.leg = 0]
    ELSE IF HasFloorNeighbourPanics(m, cs.current)
    THEN [cs EXCEPT !.leg = 0, !.panic = TRUE]
    ELSE IF HasFloorNeighbour(m, cs.current)
    THEN [cs EXCEPT !.leg = 0]
    ELSE [cs EXCEPT !.ret = Append(cs.ret, cs.current),
                    !.current = Plus(cs.current, cs.step)]

\* one evaluation of a loop condition of l_shaped_corridor_with_first_axis and,
\* when the loop goes on, one run of its body
CorridorStep(cs, start, end, m, first_axis) ==
    IF cs.leg = 1 /\ AxisGet(cs.current, first_axis) = AxisGet(end, first_axis)
    THEN [cs EXCEPT
            !.leg = 2,
            !.step = NewAxis(0, Signum(AxisGet(Minus(end, start), OtherAxis(first_axis))),
                             first_axis)]
    ELSE IF cs.leg = 2 /\ cs.current = end
    THEN [cs EXCEPT !.leg = 0]
    ELSE LET pushed == Append(cs.ret, cs.current)
         IN  IF HasFloorNeighbourPanics(m, cs.current)
             THEN [cs EXCEPT !.ret = pushed, !.leg = 0, !.panic = TRUE]
             ELSE IF HasFloorNeighbour(m, cs.current)
             THEN [cs EXCEPT !.ret = pushed, !.leg = 0]
             ELSE [cs EXCEPT !.ret = pushed, !.current = Plus(cs.current, cs.step)]

RECURSIVE CorridorRun(_, _, _, _, _)
CorridorRun(cs, start, end, m, first_axis) ==
    IF cs.leg = 0 THEN cs
    ELSE CorridorRun(CorridorStep(cs, start, end, m, first_axis), start, end, m, first_axis)

\* l_shaped_corridor_with_first_axis: [ret, panic]
LShapedCorridorWithFirstAxis(start, end, m, first_axis) ==
    CorridorRun(CorridorStart(start, end, first_axis), start, end, m, first_axis)

-----------------------------------------------------------------------------
(* RoomPlacement *)

None == <<>>

\* RoomPlacement::new
NewRoomPlacement(size) ==
    [rooms |-> <<>>, edge_coords |-> {}, door_candidates |-> <<>>,
     map |-> NewCopy(size, "Wall"), panic |-> FALSE]

\* the scan of the door candidates that keeps the pending candidate when the
\* next cell qualifies too
RECURSIVE ScanDoorCandidatesKeepFirst(_, _, _, _, _, _)
ScanDoorCandidatesKeepFirst(corridor, i, m, edges, door_candidate, out) ==
    IF i > Len(corridor)
    THEN [door_candidates |->
              IF door_candidate # None THEN Append(out, door_candidate) ELSE out,
          panic |-> FALSE]
    ELSE LET coord == corridor[i]
         IN  IF coord \in edges /\ IsCellInCorridorPanics(m, coord)
             THEN [door_candidates |-> out, panic |-> TRUE]
             ELSE IF coord \in edges /\ IsCellInCorridor(m, coord)
             THEN ScanDoorCandidatesKeepFirst(
                      corridor, i + 1, m, edges,
                      IF door_candidate # None THEN door_candidate ELSE coord, out)
             ELSE IF door_candidate # None
             THEN ScanDoorCandidatesKeepFirst(corridor, i + 1, m, edges, None,
                                              Append(out, door_candidate))
             ELSE ScanDoorCandidatesKeepFirst(corridor, i + 1, m, edges, None, out)

\* try_add_room, "Update the list of door candidates along this corridor":
\* the scan of corridor[i..] with the pending door_candidate
RECURSIVE ScanDoorCandidates(_, _, _, _, _, _)
ScanDoorCandidates(corridor, i, m, edges, door_candidate, out) ==
    IF i > Len(corridor)
    THEN [door_candidates |->
              IF door_candidate # None THEN Append(out, door_candidate) ELSE out,
          panic |-> FALSE]
    ELSE LET coord == corridor[i]
         IN  IF coord \in edges /\ IsCellInCorridorPanics(m, coord)
             THEN [door_candidates |-> out, panic |-> TRUE]
             ELSE IF coord \in edges /\ IsCellInCorridor(m, coord)
             THEN ScanDoorCandidates(corridor, i + 1, m, edges, coord, out)
             ELSE IF door_candidate # None
             THEN ScanDoorCandidates(corridor, i + 1, m, edges, None,
                                     Append(out, door_candidate))
             ELSE ScanDoorCandidates(corridor, i + 1, m, edges, None, out)

\* try_add_room, body of the loop over the chosen existing rooms once the
\* corridor is known: "Carve out the corridor from the map", then the update
\* of the door candidates
CarveCorridor(p, corridor_ret) ==
    LET carved == [c \in DOMAIN p.map |->
                      IF c \in SeqToSet(corridor_ret) THEN "Floor" ELSE p.map[c]]
        scan == ScanDoorCandidates(corridor_ret, 1, carved, p.edge_coords, None,
                                   p.door_candidates)
    IN  IF ~(SeqToSet(corridor_ret) \subseteq DOMAIN p.map)
        THEN [p EXCEPT !.panic = TRUE]
        ELSE IF scan.panic
        THEN [p EXCEPT !.map = carved, !.panic = TRUE]
        ELSE [p EXCEPT !.map = carved, !.door_candidates = scan.door_candidates]

\* try_add_room, body of the loop over the chosen existing rooms
ConnectRooms(p, new_rect, existing_rect, first_axis) ==
    LET cs == LShapedCorridorWithFirstAxis(Centre(new_rect), Centre(existing_rect),
                                           p.map, first_axis)
    IN  IF p.panic THEN p
        ELSE IF cs.panic THEN [p EXCEPT !.panic = TRUE]
        ELSE CarveCorridor(p, cs.ret)

RECURSIVE ConnectAll(_, _, _, _, _)
ConnectAll(p, new_rect, chosen, axes, i) ==
    IF i > Len(chosen) THEN p
    ELSE ConnectAll(ConnectRooms(p, new_rect, chosen[i], axes[i]), new_rect, chosen,
                    axes, i + 1)

\* RoomPlacement::try_add_room; chosen are the rooms drawn by choose_multiple and
\* axes the first axis drawn for each corridor
TryAddRoom(p, new_rect, chosen, axes) ==
    IF ~(RectCoords(new_rect) \subseteq DOMAIN p.map)
    THEN [p EXCEPT !.panic = TRUE]
    ELSE IF OverlapsWithFloor(new_rect, p.map)
    THEN p
    ELSE LET q == ConnectAll([p EXCEPT !.edge_coords = @ \cup EdgeCoords(new_rect)],
                             new_rect, chosen, axes, 1)
         IN  IF q.panic THEN q
             ELSE [q EXCEPT !.map = AddFloorToMap(new_rect, q.map),
                            !.rooms = Append(@, new_rect)]

\* SliceRandom::choose_multiple(rng, amount): min(amount, len) distinct elements,
\* in any order
ChooseMultiple(s, amount) ==
    LET n == IF Len(s) < amount THEN Len(s) ELSE amount
    IN  {[i \in 1 .. n |-> s[f[i]]] :
            f \in {g \in [1 .. n -> 1 .. Len(s)] :
                      \A a, b \in 1 .. n : a # b => g[a] # g[b]}}

Axes == {"X", "Y"}

-----------------------------------------------------------------------------
(* Flood fills.  A fill is [to_visit, seen, pushed]: the stack of coordinates  *)
(* still to visit, the set of coordinates seen, and the log of every           *)
(* coordinate put on the stack (pushed is not a variable of the program).      *)

\* the loop over the neighbours without the test of seen
RECURSIVE FillNeighboursSeenIgnored(_, _, _, _)
FillNeighboursSeenIgnored(fs, coord, i, passable) ==
    IF i > Len(CardinalDirections) THEN fs
    ELSE LET neighbour_coord == Plus(coord, CardinalDirections[i])
         IN  IF neighbour_coord \in passable
             THEN FillNeighboursSeenIgnored(
                      [to_visit |-> Append(fs.to_visit, neighbour_coord),
                       seen |-> fs.seen \cup {neighbour_coord},
                       pushed |-> Append(fs.pushed, neighbour_coord)],
                      coord, i + 1, passable)
             ELSE FillNeighboursSeenIgnored(fs, coord, i + 1, passable)

\* the loop over CardinalDirection::all() inside a fill: neighbour i and the
\* following ones of coord; a neighbour that is passable and not yet seen is
\* marked seen and pushed
RECURSIVE FillNeighbours(_, _, _, _)
FillNeighbours(fs, coord, i, passable) ==
    IF i > Len(CardinalDirections) THEN fs
    ELSE LET neighbour_coord == Plus(coord, CardinalDirections[i])
         IN  IF neighbour_coord \in passable /\ neighbour_coord \notin fs.seen
             THEN FillNeighbours([to_visit |-> Append(fs.to_visit, neighbour_coord),
                                  seen |-> fs.seen \cup {neighbour_coord},
                                  pushed |-> Append(fs.pushed, neighbour_coord)],
                                 coord, i + 1, passable)
             ELSE FillNeighbours(fs, coord, i + 1, passable)

\* one run of the body of `while let Some(coord) = to_visit.pop()`
FillStep(fs, passable) ==
    LET n == Len(fs.to_visit)
    IN  FillNeighbours([fs EXCEPT !.to_visit = SubSeq(fs.to_visit, 1, n - 1)],
                       fs.to_visit[n], 1, passable)

\* the while loop of a fill, cut after n runs of its body: the first half of
\* the runs, then the rest
RECURSIVE FillRunFor(_, _, _)
FillRunFor(fs, passable, n) ==
    IF fs.to_visit = <<>> THEN fs
    ELSE IF n = 1 THEN FillStep(fs, passable)
    ELSE LET half == FillRunFor(fs, passable, n \div 2)
         IN  IF half.to_visit = <<>> THEN half
             ELSE FillRunFor(half, passable, n - n \div 2)

\* the while loop of a fill over a grid of the given cells; a fill that has not
\* emptied its stack after two runs per cell is still looping (to_visit is not
\* empty in the result)
FillRun(fs, passable, cells) == FillRunFor(fs, passable, 2 * Cardinality(cells))

\* the loop of the fill has ended
FillEnded(fs) == fs.to_visit = <<>>

-----------------------------------------------------------------------------
(* Cave generator *)

NUM_STEPS == 10
survive_min == 4
survive_max == 8
resurrect_min == 5
resurrect_max == 5

\* the count of live neighbours that takes a neighbour outside the grid as live
LiveNeighboursOutsideLive(alive, coord) ==
    Cardinality({i \in 1 .. Len(Directions) :
                    InGrid(alive, Plus(coord, Directions[i])) =>
                        alive[Plus(coord, Directions[i])]})

\* GameOfLife::step, the count n of live neighbours of coord in the grid alive
LiveNeighbours(alive, coord) ==
    Cardinality({i \in 1 .. Len(Directions) :
                    /\ InGrid(alive, Plus(coord, Directions[i]))
                    /\ alive[Plus(coord, Directions[i])]})

\* GameOfLife::step: next is computed from alive, then the two are swapped
GameOfLifeStep(gol) ==
    LET next == [coord \in DOMAIN gol.alive |->
                    LET n == LiveNeighbours(gol.alive, coord)
                        alive_cell == gol.alive[coord]
                    IN  \/ alive_cell /\ n >= survive_min /\ n <= survive_max
                        \/ ~alive_cell /\ n >= resurrect_min /\ n <= resurrect_max]
    IN  [alive |-> next, next |-> gol.alive]

\* GameOfLife::new for the random initial grid alive0
NewGameOfLife(alive0) == [alive |-> alive0, next |-> [c \in DOMAIN alive0 |-> FALSE]]

\* generate_initial_cave_map, the grid made from the automaton after its steps
AliveToCaveMap(alive) == [c \in DOMAIN alive |-> IF alive[c] THEN "Floor" ELSE "Wall"]

\* the size of a grid as a coordinate (Size::to_coord)
GridSize(grid) ==
    LET xs == {c[1] : c \in DOMAIN grid}
        ys == {c[2] : c \in DOMAIN grid}
    IN  <<Cardinality(xs), Cardinality(ys)>>

\* surround_map_with_walls setting the first and the last row only
SurroundMapWithRows(m) ==
    LET height == GridSize(m)[2]
    IN  [c \in DOMAIN m |-> IF c[2] = 0 \/ c[2] = height - 1 THEN "Wall" ELSE m[c]]

\* surround_map_with_walls
SurroundMapWithWalls(m) ==
    LET width == GridSize(m)[1]
        height == GridSize(m)[2]
    IN  [c \in DOMAIN m |->
            IF c[1] = 0 \/ c[2] = 0 \/ c[1] = width - 1 \/ c[2] = height - 1
            THEN "Wall" ELSE m[c]]

\* remove_disconnected_walls: the fill before its loop
WallFillStart ==
    [to_visit |-> << <<0, 0>> >>, seen |-> {<<0, 0>>}, pushed |-> << <<0, 0>> >>]

\* remove_disconnected_walls: the cells the fill enters
WallFillPassable(m) == {c \in DOMAIN m : m[c] = "Wall"}

\* remove_disconnected_walls without its update of the map
MarkUnseenKept(m, seen) == m

\* remove_disconnected_walls: "marking all unseen cells as floor"
MarkUnseenAsFloor(m, seen) == [c \in DOMAIN m |-> IF c \notin seen THEN "Floor" ELSE m[c]]

\* remove_disconnected_walls: [map, panic, ended]; the assertion fails when the
\* top-left cell is not a wall
RemoveDisconnectedWalls(m) ==
    IF m[<<0, 0>>] # "Wall"
    THEN [map |-> m, panic |-> TRUE, ended |-> TRUE]
    ELSE LET fs == FillRun(WallFillStart, WallFillPassable(m), DOMAIN m)
         IN  [map |-> MarkUnseenAsFloor(m, fs.seen), panic |-> FALSE,
              ended |-> FillEnded(fs)]

\* generate_cave_map after the steps of the automaton: [map, panic, ended]
GenerateCaveMap(alive) ==
    RemoveDisconnectedWalls(SurroundMapWithWalls(AliveToCaveMap(alive)))

-----------------------------------------------------------------------------
(* Compositor *)

\* LevelCell::is_wall
IsWall(cell) == cell \in {"Wall", "CaveWall"}

\* LevelCell::is_floor
IsFloor(cell) == cell \in {"Floor", "CaveFloor"}

\* is_surrounded_by_walls with a neighbour outside the grid counted as not a wall
IsSurroundedByWallsInsideOnly(m, coord) ==
    \A i \in 1 .. Len(Directions) :
        InGrid(m, Plus(coord, Directions[i])) /\ m[Plus(coord, Directions[i])] = "Wall"

\* is_surrounded_by_walls
IsSurroundedByWalls(m, coord) ==
    \A i \in 1 .. Len(Directions) :
        InGrid(m, Plus(coord, Directions[i])) => m[Plus(coord, Directions[i])] = "Wall"

\* the combination in which the rooms and corridors take priority over the cave
CombineCellRoomsFirst(rooms_and_corridors_level_map, cave, coord) ==
    IF rooms_and_corridors_level_map[coord] = "Floor" THEN "Floor"
    ELSE IF rooms_and_corridors_level_map[coord] = "Door" THEN "Door"
    ELSE IF cave[coord] = "Floor" THEN "CaveFloor"
    ELSE IF IsSurroundedByWalls(rooms_and_corridors_level_map, coord) THEN "CaveWall"
    ELSE "Wall"

\* combine_rooms_and_corridors_level_with_cave, the cell at coord
CombineCell(rooms_and_corridors_level_map, cave, coord) ==
    IF cave[coord] = "Floor" THEN "CaveFloor"
    ELSE IF rooms_and_corridors_level_map[coord] = "Floor" THEN "Floor"
    ELSE IF rooms_and_corridors_level_map[coord] = "Door" THEN "Door"
    ELSE IF IsSurroundedByWalls(rooms_and_corridors_level_map, coord) THEN "CaveWall"
    ELSE "Wall"

\* combine_rooms_and_corridors_level_with_cave
CombineRoomsAndCorridorsLevelWithCave(rooms_and_corridors_level_map, cave) ==
    [coord \in DOMAIN cave |-> CombineCell(rooms_and_corridors_level_map, cave, coord)]

\* remove_unreachable_floor: the fill before its loop
ReachFillStart(spawn) == [to_visit |-> <<spawn>>, seen |-> {spawn}, pushed |-> <<spawn>>]

\* the cells the fill enters when it does not go through water
ReachFillPassableNoWater(m, water) == {c \in DOMAIN m : ~IsWall(m[c])}

\* remove_unreachable_floor: the cells the fill enters
ReachFillPassable(m, water) == {c \in DOMAIN m : ~IsWall(m[c]) \/ water[c]}

\* remove_unreachable_floor without the change of the unseen cave floor
PruneUnseenKeepsFloor(m, water, seen) ==
    [map |-> m,
     water_map |-> [c \in DOMAIN water |-> IF c \notin seen THEN FALSE ELSE water[c]]]

\* remove_unreachable_floor: the loop over the cells after the fill
PruneUnseen(m, water, seen) ==
    [map |-> [c \in DOMAIN m |->
                 IF c \notin seen /\ m[c] = "CaveFloor" THEN "CaveWall" ELSE m[c]],
     water_map |-> [c \in DOMAIN water |-> IF c \notin seen THEN FALSE ELSE water[c]]]

\* remove_unreachable_floor: [map, water_map, ended]
RemoveUnreachableFloor(m, water, spawn) ==
    LET fs == FillRun(ReachFillStart(spawn), ReachFillPassable(m, water), DOMAIN m)
        pruned == PruneUnseen(m, water, fs.seen)
    IN  [map |-> pruned.map, water_map |-> pruned.water_map, ended |-> FillEnded(fs)]

\* is_valid_door_position_axis
IsValidDoorPositionAxis(m, coord, axis) ==
    LET axis_delta == NewAxis(1, 0, axis)
        other_axis_delta == NewAxis(0, 1, axis)
        floor_in_axis ==
            IsFloor(m[Plus(coord, axis_delta)]) /\ IsFloor(m[Minus(coord, axis_delta)])
        wall_in_other_axis ==
            IsWall(m[Plus(coord, other_axis_delta)]) /\ IsWall(m[Minus(coord, other_axis_delta)])
    IN  floor_in_axis /\ wall_in_other_axis

\* is_valid_door_position
IsValidDoorPosition(m, coord) ==
    IsValidDoorPositionAxis(m, coord, "X") \/ IsValidDoorPositionAxis(m, coord, "Y")

\* is_valid_door_position_axis: one of the get_checked reads it makes is out of
\* bounds (the second read of each && is made only when the first test holds)
IsValidDoorPositionAxisPanics(m, coord, axis) ==
    LET axis_delta == NewAxis(1, 0, axis)
        other_axis_delta == NewAxis(0, 1, axis)
    IN  \/ ~InGrid(m, Plus(coord, axis_delta))
        \/ IsFloor(m[Plus(coord, axis_delta)]) /\ ~InGrid(m, Minus(coord, axis_delta))
        \/ ~InGrid(m, Plus(coord, other_axis_delta))
        \/ IsWall(m[Plus(coord, other_axis_delta)]) /\ ~InGrid(m, Minus(coord, other_axis_delta))

\* is_valid_door_position panics: in the X check, or in the Y check when X is false
IsValidDoorPositionPanics(m, coord) ==
    \/ IsValidDoorPositionAxisPanics(m, coord, "X")
    \/ /\ ~IsValidDoorPositionAxis(m, coord, "X")
       /\ IsValidDoorPositionAxisPanics(m, coord, "Y")

\* remove_invalid_doors panics while it collects to_remove
RemoveInvalidDoorsPanics(m) ==
    \E coord \in DOMAIN m : m[coord] = "Door" /\ IsValidDoorPositionPanics(m, coord)

\* remove_invalid_doors collecting nothing
DoorsToRemoveNone(m) == {}

\* remove_invalid_doors: the coordinates collected in to_remove
DoorsToRemove(m) == {coord \in DOMAIN m : m[coord] = "Door" /\ ~IsValidDoorPosition(m, coord)}

\* remove_invalid_doors
RemoveInvalidDoors(m) ==
    LET to_remove == DoorsToRemove(m)
    IN  [coord \in DOMAIN m |-> IF coord \in to_remove THEN "Floor" ELSE m[coord]]

-----------------------------------------------------------------------------
(* Overlays *)

\* Grid::edge_enumerate without the last column and the last row
GridEdgeTopLeft(grid) == {c \in DOMAIN grid : c[1] = 0 \/ c[2] = 0}

\* Grid::edge_enumerate: the coordinates on the edge of the grid
GridEdge(grid) ==
    LET size == GridSize(grid)
    IN  {c \in DOMAIN grid :
            c[1] = 0 \/ c[2] = 0 \/ c[1] = size[1] - 1 \/ c[2] = size[2] - 1}

\* the coordinates of S in row-major order, for a grid of the given width
RowMajorSeq(S, width) ==
    LET index(c) == c[2] * width + c[1]
    IN  [k \in 1 .. Cardinality(S) |->
            CHOOSE c \in S : Cardinality({d \in S : index(d) < index(c)}) = k - 1]

\* make_water_map: the fill before its loop, from the mask made from the noise
\* (to_visit in row-major order; no result depends on the order of the edge)
WaterFillStart(mask) ==
    LET edge_water == {c \in GridEdge(mask) : mask[c]}
        start == RowMajorSeq(edge_water, GridSize(mask)[1])
    IN  [to_visit |-> start, seen |-> edge_water, pushed |-> start]

\* make_water_map: the cells the fill enters
WaterFillPassable(mask) == {c \in DOMAIN mask : mask[c]}

\* the body of `for coord in seen` leaving the cell as it is
ClearCellNothing(m, coord) == m

\* make_water_map: `*map.get_checked_mut(coord) = false`
ClearCell(m, coord) == [m EXCEPT ![coord] = FALSE]

\* make_water_map: `for coord in seen { map[coord] = false }`
ClearSeen(mask, seen) == [c \in DOMAIN mask |-> IF c \in seen THEN FALSE ELSE mask[c]]

\* make_water_map, for the mask made from the noise: [map, ended]
MakeWaterMap(mask) ==
    LET fs == FillRun(WaterFillStart(mask), WaterFillPassable(mask), DOMAIN mask)
    IN  [map |-> ClearSeen(mask, fs.seen), ended |-> FillEnded(fs)]

\* the body of the final loop with the wall under water spawning water as well
SpawnCallsWallAndWater(coord, cell, water, grass, wall_draw) ==
    IF water[coord]
    THEN CASE cell \in {"Floor", "Door"} -> <<"water">>
           [] cell = "Wall" -> IF wall_draw THEN <<"wall", "water">> ELSE <<"water">>
           [] cell \in {"CaveFloor", "CaveWall"} ->
                  IF grass[coord] THEN <<"water", "grass">> ELSE <<"water">>
    ELSE CASE cell = "Floor" -> <<"floor">>
           [] cell = "Wall" -> <<"wall">>
           [] cell = "Door" -> <<"door">>
           [] cell = "CaveFloor" ->
                  IF grass[coord] THEN <<"cave_floor", "grass">> ELSE <<"cave_floor">>
           [] cell = "CaveWall" -> <<"cave_wall">>

\* the body of the final loop that spawns a door whether or not it is under water
SpawnCallsDoorOverWater(coord, cell, water, grass, wall_draw) ==
    IF water[coord] /\ cell # "Door"
    THEN CASE cell = "Floor" -> <<"water">>
           [] cell = "Wall" -> IF wall_draw THEN <<"wall">> ELSE <<"water">>
           [] cell \in {"CaveFloor", "CaveWall"} ->
                  IF grass[coord] THEN <<"water", "grass">> ELSE <<"water">>
    ELSE CASE cell = "Floor" -> <<"floor">>
           [] cell = "Wall" -> <<"wall">>
           [] cell = "Door" -> <<"door">>
           [] cell = "CaveFloor" ->
                  IF grass[coord] THEN <<"cave_floor", "grass">> ELSE <<"cave_floor">>
           [] cell = "CaveWall" -> <<"cave_wall">>

\* Terrain::generate, the body of its final loop for (coord, cell): the spawn
\* calls made at coord, in order; wall_draw is rng.gen_range(0..100) < 75
SpawnCalls(coord, cell, water, grass, wall_draw) ==
    IF water[coord]
    THEN CASE cell \in {"Floor", "Door"} -> <<"water">>
           [] cell = "Wall" -> IF wall_draw THEN <<"wall">> ELSE <<"water">>
           [] cell \in {"CaveFloor", "CaveWall"} ->
                  IF grass[coord] THEN <<"water", "grass">> ELSE <<"water">>
    ELSE CASE cell = "Floor" -> <<"floor">>
           [] cell = "Wall" -> <<"wall">>
           [] cell = "Door" -> <<"door">>
           [] cell = "CaveFloor" ->
                  IF grass[coord] THEN <<"cave_floor", "grass">> ELSE <<"cave_floor">>
           [] cell = "CaveWall" -> <<"cave_wall">>

\* Grid::enumerate: the coordinates of the grid in the order of the iteration
Enumerate(m) == RowMajor(GridSize(m))

\* Terrain::generate, one iteration of its final loop, for the pair
\* (coord, cell) of the enumeration: the spawn calls are appended to the
\* entities at coord
PopulateStep(w, coord, m, water, grass, wall_draws) ==
    [w EXCEPT ![coord] = @ \o SpawnCalls(coord, m[coord], water, grass, wall_draws[coord])]

\* Terrain::generate, its final loop from the i-th pair of the enumeration on:
\* one iteration, then the rest on the world that it has left (the world and
\* the index are bound as values, so that each iteration is run once)
RECURSIVE PopulateFrom(_, _, _, _, _, _, _)
PopulateFrom(w, order, i, m, water, grass, wall_draws) ==
    IF i > Len(order) THEN w
    ELSE CHOOSE last \in
             {PopulateFrom(next, order, j, m, water, grass, wall_draws) :
                 next \in {PopulateStep(w, order[i], m, water, grass, wall_draws)},
                 j \in {i + 1}} : TRUE

\* Terrain::generate, its final loop
PopulateRun(w, m, water, grass, wall_draws) ==
    CHOOSE last \in {PopulateFrom(w, order, 1, m, water, grass, wall_draws) :
                        order \in {Enumerate(m)}} : TRUE

\* the cells for which the final loop draws wall-or-water
WallDrawCells(m, water) == {c \in DOMAIN m : water[c] /\ m[c] = "Wall"}

-----------------------------------------------------------------------------
(* Random inputs the model draws from *)

\* the grid of the given size that is TRUE on the w by h block at <<x0, y0>>
Block(size, x0, y0, w, h) ==
    [c \in Coords(size) |-> c[1] \in x0 .. x0 + w - 1 /\ c[2] \in y0 .. y0 + h - 1]

\* initial grids of the automaton (GameOfLife::new draws every cell): no live
\* cell, or a 4 by 4 block of live cells at every third column and row whose
\* indices differ by a multiple of 6
CaveSeeds(size) ==
    {NewCopy(size, FALSE)} \cup
    {Block(size, c[1], c[2], 4, 4) :
        c \in {d \in (0 .. size[1] - 4) \X (0 .. size[2] - 4) :
                  d[1] % 3 = 0 /\ d[2] % 3 = 0 /\ (d[1] + d[2]) % 6 = 0}}

\* the mask that is TRUE where a or b is
Either(a, b) == [c \in DOMAIN a |-> a[c] \/ b[c]]

\* masks of the water noise above its threshold: no water, a 2 by 2 block at
\* every second column from the fifth on of the rows 2 and 3, 6 and 7, ..., or
\* the block at the left edge together with the block four columns to its right
WaterSeeds(size) ==
    {NewCopy(size, FALSE)} \cup
    {Block(size, x0, y0, 2, 2) : x0 \in {x \in 4 .. size[1] - 2 : x % 2 = 0},
                                 y0 \in {y \in 0 .. size[2] - 2 : y % 4 = 2}} \cup
    {Either(Block(size, 0, y0, 2, 2), Block(size, 4, y0, 2, 2)) :
        y0 \in {y \in 0 .. size[2] - 2 : y % 4 = 2}}

\* grass masks: nowhere or everywhere
GrassSeeds(size) == {NewCopy(size, FALSE), NewCopy(size, TRUE)}

WorldSizes == {<<WorldW, WorldH>>, <<SmallSide, SmallSide>>}

-----------------------------------------------------------------------------
(* Terrain::generate, one action per stage *)

Unset == <<>>

\* the fields of RoomPlacement and the loop counter of the attempts
placement_vars == <<attempt, rooms, edge_coords, door_candidates, map>>

\* the results of the stages after the room placement
stage_vars == <<rc_map, player_spawn, cave_map, combined_map, water_map, grass_map>>

\* the automaton
life_vars == <<game_of_life, life_steps>>

\* the loops in progress
loop_vars == <<adding, corridor_state, fill>>

\* the stage that draws from rng, logged after the earlier draws
Draws(stage) == Append(rng_log, stage)

\* World::new and RoomPlacement::new
Init ==
    /\ world_size \in WorldSizes
    /\ pc = "rooms"
    /\ attempt = 0
    /\ rooms = <<>>
    /\ edge_coords = {}
    /\ door_candidates = <<>>
    /\ map = NewCopy(world_size, "Wall")
    /\ rc_map = Unset
    /\ player_spawn = Unset
    /\ game_of_life = Unset
    /\ life_steps = 0
    /\ cave_map = Unset
    /\ combined_map = Unset
    /\ water_map = Unset
    /\ grass_map = Unset
    /\ world = NewCopy(world_size, <<>>)
    /\ noise = Unset
    /\ rng_log = <<>>
    /\ adding = Unset
    /\ corridor_state = Unset
    /\ fill = Unset
    /\ game = Unset

\* a loop that does not end
Diverge ==
    /\ pc' = "diverged"
    /\ UNCHANGED <<game, world_size, placement_vars, stage_vars, life_vars, loop_vars,
                   world, noise, rng_log>>

\* a panic of the program
Panic ==
    /\ pc' = "panicked"
    /\ UNCHANGED <<game, world_size, placement_vars, stage_vars, life_vars, loop_vars,
                   world, noise, rng_log>>

\* RoomsAndCorridorsLevel::generate, one iteration of the loop over the room
\* attempts: Rect::choose, then try_add_room
RoomAttemptOf(attempts) ==
    /\ pc = "rooms"
    /\ attempt < attempts
    /\ \E w \in MIN_ROOM_W .. MaxRoomW - 1, h \in MIN_ROOM_H .. MaxRoomH - 1 :
          IF ChoosePanics(world_size, w, h)
          THEN Panic
          ELSE \E rect \in ChooseRects(world_size, w, h),
                  chosen \in ChooseMultiple(rooms, 2) :
                 \E axes \in [1 .. Len(chosen) -> Axes] :
                    LET p == TryAddRoom([rooms |-> rooms, edge_coords |-> edge_coords,
                                         door_candidates |-> door_candidates,
                                         map |-> map, panic |-> FALSE],
                                        rect, chosen, axes)
                    IN  IF p.panic
                        THEN Panic
                        ELSE /\ rooms' = p.rooms
                             /\ edge_coords' = p.edge_coords
                             /\ door_candidates' = p.door_candidates
                             /\ map' = p.map
                             /\ attempt' = attempt + 1
                             /\ rng_log' = Draws("rooms")
                             /\ UNCHANGED <<game, world_size, pc, stage_vars, life_vars,
                                            loop_vars, world, noise>>

\* the loop over the room attempts of RoomsAndCorridorsLevel::generate
RoomAttempt == RoomAttemptOf(NumRoomAttempts)

\* RoomsAndCorridorsLevel::generate after the attempts: the stage-2 map with a
\* door at every candidate whose draw is true
AddDoors ==
    /\ pc = "rooms"
    /\ attempt = NumRoomAttempts
    /\ \E draws \in [1 .. Len(door_candidates) -> BOOLEAN] :
          rc_map' = [c \in DOMAIN map |->
                        IF \E i \in 1 .. Len(door_candidates) :
                               door_candidates[i] = c /\ draws[i]
                        THEN "Door" ELSE map[c]]
    /\ rng_log' = IF door_candidates = <<>> THEN rng_log ELSE Draws("rooms")
    /\ adding' = Unset
    /\ pc' = "spawn"
    /\ UNCHANGED <<game, world_size, placement_vars, player_spawn, cave_map, combined_map,
                   water_map, grass_map, life_vars, corridor_state, fill, world, noise>>

\* RoomsAndCorridorsLevel::generate: rooms.choose(rng).unwrap().rect.centre()
ChooseSpawn ==
    /\ pc = "spawn"
    /\ IF rooms = <<>>
       THEN Panic
       ELSE /\ \E i \in 1 .. Len(rooms) : player_spawn' = Centre(rooms[i])
            /\ rng_log' = Draws("rooms")
            /\ pc' = "cave"
            /\ UNCHANGED <<game, world_size, placement_vars, rc_map, cave_map, combined_map,
                           water_map, grass_map, life_vars, loop_vars, world, noise>>

\* generate_initial_cave_map: GameOfLife::new
NewLife ==
    /\ pc = "cave"
    /\ \E alive0 \in CaveSeeds(world_size) : game_of_life' = NewGameOfLife(alive0)
    /\ rng_log' = Draws("cave")
    /\ pc' = "life"
    /\ UNCHANGED <<game, world_size, placement_vars, stage_vars, life_steps, loop_vars,
                   world, noise>>

\* generate_initial_cave_map: one iteration of the loop over the steps
LifeStep ==
    /\ pc = "life"
    /\ life_steps < NUM_STEPS
    /\ game_of_life' = GameOfLifeStep(game_of_life)
    /\ life_steps' = life_steps + 1
    /\ UNCHANGED <<game, world_size, pc, placement_vars, stage_vars, loop_vars, world,
                   noise, rng_log>>

\* generate_cave_map after the steps: the grid of the live cells, surrounded
\* with walls, without its disconnected walls
GenerateCave ==
    /\ pc = "life"
    /\ life_steps = NUM_STEPS
    /\ LET cave == GenerateCaveMap(game_of_life.alive)
       IN  IF cave.panic
           THEN Panic
           ELSE IF ~cave.ended
           THEN Diverge
           ELSE /\ cave_map' = cave.map
                /\ pc' = "combine"
                /\ UNCHANGED <<game, world_size, placement_vars, rc_map, player_spawn,
                               combined_map, water_map, grass_map, life_vars,
                               loop_vars, world, noise, rng_log>>

\* combine_rooms_and_corridors_level_with_cave
Combine ==
    /\ pc = "combine"
    /\ combined_map' = CombineRoomsAndCorridorsLevelWithCave(rc_map, cave_map)
    /\ pc' = "water"
    /\ UNCHANGED <<game, world_size, placement_vars, rc_map, player_spawn, cave_map,
                   water_map, grass_map, life_vars, loop_vars, world, noise, rng_log>>

\* make_water_map
MakeWater ==
    /\ pc = "water"
    /\ \E mask \in WaterSeeds(world_size) :
          LET water == MakeWaterMap(mask)
          IN  IF ~water.ended
              THEN Diverge
              ELSE /\ noise' = mask
                   /\ water_map' = water.map
                   /\ rng_log' = Draws("water")
                   /\ pc' = "prune"
                   /\ UNCHANGED <<game, world_size, placement_vars, rc_map, player_spawn,
                                  cave_map, combined_map, grass_map, life_vars,
                                  loop_vars, world>>

\* remove_unreachable_floor
Prune ==
    /\ pc = "prune"
    /\ IF ~InGrid(combined_map, player_spawn)
       THEN Panic
       ELSE LET r == RemoveUnreachableFloor(combined_map, water_map, player_spawn)
            IN  IF ~r.ended
                THEN Diverge
                ELSE /\ combined_map' = r.map
                     /\ water_map' = r.water_map
                     /\ pc' = "repair"
                     /\ UNCHANGED <<game, world_size, placement_vars, rc_map, player_spawn,
                                    cave_map, grass_map, life_vars, loop_vars, world,
                                    noise, rng_log>>

\* remove_invalid_doors
Repair ==
    /\ pc = "repair"
    /\ IF RemoveInvalidDoorsPanics(combined_map)
       THEN Panic
       ELSE /\ combined_map' = RemoveInvalidDoors(combined_map)
            /\ pc' = "grass"
            /\ UNCHANGED <<game, world_size, placement_vars, rc_map, player_spawn, cave_map,
                           water_map, grass_map, life_vars, loop_vars, world, noise,
                           rng_log>>

\* make_grass_map, then world.spawn_player(player_spawn)
MakeGrass ==
    /\ pc = "grass"
    /\ grass_map' \in GrassSeeds(world_size)
    /\ rng_log' = Draws("grass")
    /\ world' = [world EXCEPT ![player_spawn] = Append(@, "player")]
    /\ pc' = "populate"
    /\ UNCHANGED <<game, world_size, placement_vars, rc_map, player_spawn, cave_map,
                   combined_map, water_map, life_vars, loop_vars, noise>>

\* the final loop of Terrain::generate
Populate ==
    /\ pc = "populate"
    /\ \E walls \in SUBSET WallDrawCells(combined_map, water_map) :
          world' = PopulateRun(world, combined_map, water_map, grass_map,
                               [c \in DOMAIN combined_map |-> c \in walls])
    /\ rng_log' = IF WallDrawCells(combined_map, water_map) = {} THEN rng_log
                  ELSE Draws("walls")
    /\ pc' = "done"
    /\ UNCHANGED <<game, world_size, placement_vars, stage_vars, life_vars, loop_vars, noise>>

Next ==
    \/ RoomAttempt
    \/ AddDoors
    \/ ChooseSpawn
    \/ NewLife
    \/ LifeStep
    \/ GenerateCave
    \/ Combine
    \/ MakeWater
    \/ Prune
    \/ Repair
    \/ MakeGrass
    \/ Populate

Spec == Init /\ [][Next]_vars

-----------------------------------------------------------------------------
(* Terrain::generate with its while loops run one iteration at a time *)

\* RoomsAndCorridorsLevel::generate, one iteration of the loop over the room
\* attempts up to the loop of try_add_room: Rect::choose, the overlap test,
\* the new edge coordinates; chosen and axes are the draws of the loop.
\* adding.rect is new_room, kept until the next iteration draws another
BeginRoom ==
    /\ pc = "rooms"
    /\ attempt < NumRoomAttempts
    /\ \E w \in MIN_ROOM_W .. MaxRoomW - 1, h \in MIN_ROOM_H .. MaxRoomH - 1 :
          IF ChoosePanics(world_size, w, h)
          THEN Panic
          ELSE \E rect \in ChooseRects(world_size, w, h),
                  chosen \in ChooseMultiple(rooms, 2) :
                 \E axes \in [1 .. Len(chosen) -> Axes] :
                    IF ~(RectCoords(rect) \subseteq DOMAIN map)
                    THEN Panic
                    ELSE IF OverlapsWithFloor(rect, map)
                    THEN /\ attempt' = attempt + 1
                         /\ adding' = [rect |-> rect, chosen |-> <<>>,
                                       axes |-> <<>>, i |-> 1]
                         /\ rng_log' = Draws("rooms")
                         /\ UNCHANGED <<game, world_size, pc, rooms, edge_coords,
                                        door_candidates, map, stage_vars, life_vars,
                                        corridor_state, fill, world, noise>>
                    ELSE /\ edge_coords' = edge_coords \cup EdgeCoords(rect)
                         /\ adding' = [rect |-> rect, chosen |-> chosen,
                                       axes |-> axes, i |-> 1]
                         /\ rng_log' = Draws("rooms")
                         /\ pc' = "connect"
                         /\ UNCHANGED <<game, world_size, attempt, rooms, door_candidates,
                                        map, stage_vars, life_vars, corridor_state,
                                        fill, world, noise>>

\* try_add_room, the loop over the chosen rooms: l_shaped_corridor_with_first_axis
\* up to its first loop
BeginCorridor ==
    /\ pc = "connect"
    /\ adding.i <= Len(adding.chosen)
    /\ corridor_state' = CorridorStart(Centre(adding.rect),
                                       Centre(adding.chosen[adding.i]),
                                       adding.axes[adding.i])
    /\ pc' = "corridor"
    /\ UNCHANGED <<game, world_size, placement_vars, stage_vars, life_vars, adding, fill,
                   world, noise, rng_log>>

\* l_shaped_corridor_with_first_axis: one evaluation of a loop condition and,
\* when the loop goes on, one run of its body
CorridorLoop ==
    /\ pc = "corridor"
    /\ corridor_state.leg # 0
    /\ LET cs == CorridorStep(corridor_state, Centre(adding.rect),
                              Centre(adding.chosen[adding.i]), map,
                              adding.axes[adding.i])
       IN  IF cs.panic
           THEN Panic
           ELSE /\ corridor_state' = cs
                /\ UNCHANGED <<game, world_size, pc, placement_vars, stage_vars, life_vars,
                               adding, fill, world, noise, rng_log>>

\* try_add_room, the loop over the chosen rooms after the corridor is returned:
\* the carving and the door candidates
EndCorridor ==
    /\ pc = "corridor"
    /\ corridor_state.leg = 0
    /\ LET p == CarveCorridor([rooms |-> rooms, edge_coords |-> edge_coords,
                               door_candidates |-> door_candidates, map |-> map,
                               panic |-> FALSE],
                              corridor_state.ret)
       IN  IF p.panic
           THEN Panic
           ELSE /\ map' = p.map
                /\ door_candidates' = p.door_candidates
                /\ adding' = [adding EXCEPT !.i = @ + 1]
                /\ corridor_state' = Unset
                /\ pc' = "connect"
                /\ UNCHANGED <<game, world_size, attempt, rooms, edge_coords, stage_vars,
                               life_vars, fill, world, noise, rng_log>>

\* try_add_room after its loop: add_floor_to_map and rooms.push
EndRoom ==
    /\ pc = "connect"
    /\ adding.i > Len(adding.chosen)
    /\ map' = AddFloorToMap(adding.rect, map)
    /\ rooms' = Append(rooms, adding.rect)
    /\ attempt' = attempt + 1
    /\ adding' = Unset
    /\ pc' = "rooms"
    /\ UNCHANGED <<game, world_size, edge_coords, door_candidates, stage_vars, life_vars,
                   corridor_state, fill, world, noise, rng_log>>

\* generate_cave_map after the steps: surround_map_with_walls, then
\* remove_disconnected_walls up to its loop
CaveFillBegin ==
    /\ pc = "life"
    /\ life_steps = NUM_STEPS
    /\ LET m == SurroundMapWithWalls(AliveToCaveMap(game_of_life.alive))
       IN  IF m[<<0, 0>>] # "Wall"
           THEN Panic
           ELSE /\ cave_map' = m
                /\ fill' = WallFillStart
                /\ pc' = "cave_fill"
                /\ UNCHANGED <<game, world_size, placement_vars, rc_map, player_spawn,
                               combined_map, water_map, grass_map, life_vars, adding,
                               corridor_state, world, noise, rng_log>>

\* remove_disconnected_walls: one run of the body of its while loop
CaveFillLoop ==
    /\ pc = "cave_fill"
    /\ ~FillEnded(fill)
    /\ fill' = FillStep(fill, WallFillPassable(cave_map))
    /\ UNCHANGED <<game, world_size, pc, placement_vars, stage_vars, life_vars, adding,
                   corridor_state, world, noise, rng_log>>

\* remove_disconnected_walls after its while loop
CaveFillEnd ==
    /\ pc = "cave_fill"
    /\ FillEnded(fill)
    /\ cave_map' = MarkUnseenAsFloor(cave_map, fill.seen)
    /\ fill' = Unset
    /\ pc' = "combine"
    /\ UNCHANGED <<game, world_size, placement_vars, rc_map, player_spawn, combined_map,
                   water_map, grass_map, life_vars, adding, corridor_state, world,
                   noise, rng_log>>

\* make_water_map up to its while loop
WaterFillBegin ==
    /\ pc = "water"
    /\ \E mask \in WaterSeeds(world_size) :
          /\ noise' = mask
          /\ water_map' = mask
          /\ fill' = WaterFillStart(mask)
    /\ rng_log' = Draws("water")
    /\ pc' = "water_fill"
    /\ UNCHANGED <<game, world_size, placement_vars, rc_map, player_spawn, cave_map,
                   combined_map, grass_map, life_vars, adding, corridor_state, world>>

\* make_water_map: one run of the body of its while loop
WaterFillLoop ==
    /\ pc = "water_fill"
    /\ ~FillEnded(fill)
    /\ fill' = FillStep(fill, WaterFillPassable(water_map))
    /\ UNCHANGED <<game, world_size, pc, placement_vars, stage_vars, life_vars, adding,
                   corridor_state, world, noise, rng_log>>

\* make_water_map: one iteration of `for coord in seen`; the HashSet yields
\* its elements in an order the program does not fix (fill.seen holds the
\* elements not yet yielded)
WaterClear ==
    /\ pc = "water_fill"
    /\ FillEnded(fill)
    /\ \E coord \in fill.seen :
          /\ water_map' = ClearCell(water_map, coord)
          /\ fill' = [fill EXCEPT !.seen = @ \ {coord}]
    /\ UNCHANGED <<game, world_size, pc, placement_vars, rc_map, player_spawn, cave_map,
                   combined_map, grass_map, life_vars, adding, corridor_state, world,
                   noise, rng_log>>

\* make_water_map returns
WaterFillEnd ==
    /\ pc = "water_fill"
    /\ FillEnded(fill)
    /\ fill.seen = {}
    /\ fill' = Unset
    /\ pc' = "prune"
    /\ UNCHANGED <<game, world_size, placement_vars, stage_vars, life_vars, adding,
                   corridor_state, world, noise, rng_log>>

\* remove_unreachable_floor up to its while loop
ReachFillBegin ==
    /\ pc = "prune"
    /\ IF ~InGrid(combined_map, player_spawn)
       THEN Panic
       ELSE /\ fill' = ReachFillStart(player_spawn)
            /\ pc' = "reach_fill"
            /\ UNCHANGED <<game, world_size, placement_vars, stage_vars, life_vars, adding,
                           corridor_state, world, noise, rng_log>>

\* remove_unreachable_floor: one run of the body of its while loop
ReachFillLoop ==
    /\ pc = "reach_fill"
    /\ ~FillEnded(fill)
    /\ fill' = FillStep(fill, ReachFillPassable(combined_map, water_map))
    /\ UNCHANGED <<game, world_size, pc, placement_vars, stage_vars, life_vars, adding,
                   corridor_state, world, noise, rng_log>>

\* remove_unreachable_floor after its while loop
ReachFillEnd ==
    /\ pc = "reach_fill"
    /\ FillEnded(fill)
    /\ LET pruned == PruneUnseen(combined_map, water_map, fill.seen)
       IN  /\ combined_map' = pruned.map
           /\ water_map' = pruned.water_map
    /\ fill' = Unset
    /\ pc' = "repair"
    /\ UNCHANGED <<game, world_size, placement_vars, rc_map, player_spawn, cave_map,
                   grass_map, life_vars, adding, corridor_state, world, noise, rng_log>>

NextSteps ==
    \/ BeginRoom
    \/ BeginCorridor
    \/ CorridorLoop
    \/ EndCorridor
    \/ EndRoom
    \/ AddDoors
    \/ ChooseSpawn
    \/ NewLife
    \/ LifeStep
    \/ CaveFillBegin
    \/ CaveFillLoop
    \/ CaveFillEnd
    \/ Combine
    \/ WaterFillBegin
    \/ WaterFillLoop
    \/ WaterClear
    \/ WaterFillEnd
    \/ ReachFillBegin
    \/ ReachFillLoop
    \/ ReachFillEnd
    \/ Repair
    \/ MakeGrass
    \/ Populate

\* the program runs on its own thread until it returns or panics: a step that
\* can be taken is taken
SpecSteps == Init /\ [][NextSteps]_vars /\ WF_vars(NextSteps)

-----------------------------------------------------------------------------
(* try_add_room connecting the second room of a wider world to the first *)

\* RoomsAndCorridorsLevel::generate in its second room attempt, in try_add_room
\* before the loop over the chosen rooms: the first room was accepted, the
\* new room passed the overlap test and its edge coordinates were recorded
InitConnect ==
    /\ world_size = <<ConnectW, ConnectH>>
    /\ pc = "connect"
    /\ attempt = 1
    /\ \E w1, w2 \in MIN_ROOM_W .. MaxRoomW - 1, h1, h2 \in MIN_ROOM_H .. MaxRoomH - 1 :
          \E first \in ChooseRects(world_size, w1, h1),
             new_room \in ChooseRects(world_size, w2, h2), axis \in Axes :
             LET p == TryAddRoom(NewRoomPlacement(world_size), first, <<>>, <<>>)
             IN  /\ ~OverlapsWithFloor(new_room, p.map)
                 /\ rooms = p.rooms
                 /\ map = p.map
                 /\ edge_coords = p.edge_coords \cup EdgeCoords(new_room)
                 /\ door_candidates = p.door_candidates
                 /\ adding = [rect |-> new_room, chosen |-> p.rooms,
                              axes |-> <<axis>>, i |-> 1]
    /\ rc_map = Unset
    /\ player_spawn = Unset
    /\ game_of_life = Unset
    /\ life_steps = 0
    /\ cave_map = Unset
    /\ combined_map = Unset
    /\ water_map = Unset
    /\ grass_map = Unset
    /\ world = NewCopy(world_size, <<>>)
    /\ noise = Unset
    /\ rng_log = <<"rooms", "rooms">>
    /\ corridor_state = Unset
    /\ fill = Unset
    /\ game = Unset

NextConnect ==
    \/ BeginCorridor
    \/ CorridorLoop
    \/ EndCorridor
    \/ EndRoom

SpecConnect == InitConnect /\ [][NextConnect]_vars

-----------------------------------------------------------------------------
(* The automaton of generate_initial_cave_map run from every grid of a small size *)

\* generate_initial_cave_map after GameOfLife::new, whose draws can make any grid
InitLife ==
    /\ world_size = <<LifeSide, LifeSide>>
    /\ pc = "life"
    /\ game_of_life \in {NewGameOfLife(alive0) : alive0 \in [Coords(world_size) -> BOOLEAN]}
    /\ life_steps = 0
    /\ attempt = 0
    /\ rooms = <<>>
    /\ edge_coords = {}
    /\ door_candidates = <<>>
    /\ map = NewCopy(world_size, "Wall")
    /\ rc_map = Unset
    /\ player_spawn = Unset
    /\ cave_map = Unset
    /\ combined_map = Unset
    /\ water_map = Unset
    /\ grass_map = Unset
    /\ world = NewCopy(world_size, <<>>)
    /\ noise = Unset
    /\ rng_log = <<"cave">>
    /\ adding = Unset
    /\ corridor_state = Unset
    /\ fill = Unset
    /\ game = Unset

NextLife == LifeStep

SpecLife == InitLife /\ [][NextLife]_vars

-----------------------------------------------------------------------------
(* generate_cave_map on the grids the automaton can hand to it *)

\* the grids that are any pattern on the 3 by 3 block at <<1, 1>> and all
\* live or all dead elsewhere
CaveInputs(size) ==
    {[c \in Coords(size) |-> IF c \in DOMAIN inner THEN inner[c] ELSE rest] :
        inner \in [(1 .. 3) \X (1 .. 3) -> BOOLEAN], rest \in BOOLEAN}

\* generate_cave_map when generate_initial_cave_map has run its steps, the
\* grid of the automaton being any of CaveInputs
InitCave ==
    /\ world_size = <<CaveSide, CaveSide>>
    /\ pc = "life"
    /\ game_of_life \in {NewGameOfLife(alive0) : alive0 \in CaveInputs(world_size)}
    /\ life_steps = NUM_STEPS
    /\ attempt = 0
    /\ rooms = <<>>
    /\ edge_coords = {}
    /\ door_candidates = <<>>
    /\ map = NewCopy(world_size, "Wall")
    /\ rc_map = Unset
    /\ player_spawn = Unset
    /\ cave_map = Unset
    /\ combined_map = Unset
    /\ water_map = Unset
    /\ grass_map = Unset
    /\ world = NewCopy(world_size, <<>>)
    /\ noise = Unset
    /\ rng_log = <<"cave">>
    /\ adding = Unset
    /\ corridor_state = Unset
    /\ fill = Unset
    /\ game = Unset

NextCave == GenerateCave

SpecCave == InitCave /\ [][NextCave]_vars

-----------------------------------------------------------------------------
(* The room placement in a world that holds three rooms side by side *)

\* RoomsAndCorridorsLevel::generate before its loop
InitPlace ==
    /\ world_size = <<PlaceW, PlaceH>>
    /\ pc = "rooms"
    /\ attempt = 0
    /\ rooms = <<>>
    /\ edge_coords = {}
    /\ door_candidates = <<>>
    /\ map = NewCopy(world_size, "Wall")
    /\ rc_map = Unset
    /\ player_spawn = Unset
    /\ game_of_life = Unset
    /\ life_steps = 0
    /\ cave_map = Unset
    /\ combined_map = Unset
    /\ water_map = Unset
    /\ grass_map = Unset
    /\ world = NewCopy(world_size, <<>>)
    /\ noise = Unset
    /\ rng_log = <<>>
    /\ adding = Unset
    /\ corridor_state = Unset
    /\ fill = Unset
    /\ game = Unset

\* the loop over the room attempts
PlaceRoom == RoomAttemptOf(PlaceAttempts)

NextPlace == PlaceRoom

SpecPlace == InitPlace /\ [][NextPlace]_vars

-----------------------------------------------------------------------------
(* The game (src/src/game.rs): the world of entities and the moves of the   *)
(* player.  An entity is a number.  A component table is a function from    *)
(* the entities that have the component to its values; the unit component   *)
(* solid and the constant component light are the sets of their entities.   *)
(* The spatial table keeps the location of every entity and, for every      *)
(* coordinate, the entity of each occupied layer.  An Option is None or     *)
(* Some(x).  game.config.omniscient is true: the other configuration hands  *)
(* the same update to the cells the shadow casting of the library visits.   *)

Some(x) == <<x>>

\* ComponentTable::insert
Insert(table, e, v) == [x \in DOMAIN table \cup {e} |-> IF x = e THEN v ELSE table[x]]

\* ComponentTable::remove
Remove(table, e) == [x \in DOMAIN table \ {e} |-> table[x]]

\* World::new
NewWorld(size) ==
    [components |-> [tile |-> <<>>, solid |-> {}, door_state |-> <<>>,
                     opacity |-> <<>>, light |-> {}],
     entity_allocator |-> [next |-> 0, free |-> <<>>],
     spatial_table |-> [location |-> <<>>, grid |-> NewCopy(size, <<>>)],
     panic |-> FALSE]

\* Components::insert_entity_data: the components named in the data are set
InsertEntityData(components, entity, entity_data) ==
    [tile |-> IF "tile" \in DOMAIN entity_data
              THEN Insert(components.tile, entity, entity_data.tile)
              ELSE components.tile,
     solid |-> IF "solid" \in DOMAIN entity_data
               THEN components.solid \cup {entity}
               ELSE components.solid,
     door_state |-> IF "door_state" \in DOMAIN entity_data
                    THEN Insert(components.door_state, entity, entity_data.door_state)
                    ELSE components.door_state,
     opacity |-> IF "opacity" \in DOMAIN entity_data
                 THEN Insert(components.opacity, entity, entity_data.opacity)
                 ELSE components.opacity,
     light |-> IF "light" \in DOMAIN entity_data
               THEN components.light \cup {entity}
               ELSE components.light]

\* Components::remove_entity
RemoveEntity(components, entity) ==
    [tile |-> Remove(components.tile, entity),
     solid |-> components.solid \ {entity},
     door_state |-> Remove(components.door_state, entity),
     opacity |-> Remove(components.opacity, entity),
     light |-> components.light \ {entity}]

\* Components::apply_entity_update: the components named with Some(value)
\* are set, those named with None are removed, the others are kept
ApplyEntityUpdate(components, entity, set, removed) ==
    LET updated == InsertEntityData(components, entity, set)
    IN  [tile |-> IF "tile" \in removed THEN Remove(updated.tile, entity)
                  ELSE updated.tile,
         solid |-> IF "solid" \in removed THEN updated.solid \ {entity}
                   ELSE updated.solid,
         door_state |-> IF "door_state" \in removed
                        THEN Remove(updated.door_state, entity)
                        ELSE updated.door_state,
         opacity |-> IF "opacity" \in removed THEN Remove(updated.opacity, entity)
                     ELSE updated.opacity,
         light |-> IF "light" \in removed THEN updated.light \ {entity}
                   ELSE updated.light]

\* SpatialTable::layers_at: Some(layers) inside the grid
LayersAt(spatial_table, coord) ==
    IF coord \in DOMAIN spatial_table.grid THEN Some(spatial_table.grid[coord]) ELSE None

\* the pattern Some(&Layers { feature: Some(feature_entity), .. }) on layers_at
FeatureAt(spatial_table, coord) ==
    LET layers == LayersAt(spatial_table, coord)
    IN  IF layers # None /\ "feature" \in DOMAIN layers[1]
        THEN Some(layers[1].feature)
        ELSE None

\* SpatialTable::coord_of
CoordOf(spatial_table, entity) ==
    IF entity \in DOMAIN spatial_table.location
    THEN Some(spatial_table.location[entity].coord)
    ELSE None

\* World::spawn_entity: the world with the new entity, or the panic of the
\* spawn at an occupied layer or outside the grid
SpawnEntity(w, coord, layer, entity_data) ==
    LET a == w.entity_allocator
        entity == IF a.free # <<>> THEN a.free[Len(a.free)] ELSE a.next
        grid == w.spatial_table.grid
    IN  IF w.panic \/ coord \notin DOMAIN grid \/ layer \in DOMAIN grid[coord]
        THEN [w EXCEPT !.panic = TRUE]
        ELSE [components |-> InsertEntityData(w.components, entity, entity_data),
              entity_allocator |->
                  IF a.free # <<>>
                  THEN [a EXCEPT !.free = SubSeq(a.free, 1, Len(a.free) - 1)]
                  ELSE [a EXCEPT !.next = a.next + 1],
              spatial_table |->
                  [location |-> Insert(w.spatial_table.location, entity,
                                       [coord |-> coord, layer |-> layer]),
                   grid |-> [grid EXCEPT ![coord] = Insert(@, layer, entity)]],
              panic |-> FALSE]

\* World::spawn_player
SpawnPlayer(w, coord) ==
    SpawnEntity(w, coord, "character", [tile |-> "Player", light |-> TRUE])

\* World::spawn_wall
SpawnWall(w, coord) ==
    SpawnEntity(w, coord, "feature", [tile |-> "Wall", solid |-> TRUE, opacity |-> 255])

\* World::spawn_door
SpawnDoor(w, coord) ==
    IF w.panic \/ coord \notin DOMAIN w.spatial_table.grid
    THEN [w EXCEPT !.panic = TRUE]
    ELSE LET feature == FeatureAt(w.spatial_table, coord)
             cleared ==
                 IF feature = None THEN w
                 ELSE [w EXCEPT
                          !.spatial_table.location = Remove(@, feature[1]),
                          !.spatial_table.grid[coord] = Remove(@, "feature"),
                          !.components = RemoveEntity(@, feature[1]),
                          !.entity_allocator.free = Append(@, feature[1])]
         IN  SpawnEntity(cleared, coord, "feature",
                         [tile |-> "DoorClosed", door_state |-> "Closed",
                          solid |-> TRUE, opacity |-> 255])

\* World::spawn_floor
SpawnFloor(w, coord) == SpawnEntity(w, coord, "floor", [tile |-> "Floor"])

\* one spawn call of Terrain::generate
Spawn(w, call) ==
    CASE call.kind = "player" -> SpawnPlayer(w, call.coord)
      [] call.kind = "wall" -> SpawnWall(w, call.coord)
      [] call.kind = "door" -> SpawnDoor(w, call.coord)
      [] call.kind = "floor" -> SpawnFloor(w, call.coord)

\* the spawn calls of Terrain::generate from the lo-th to the hi-th, in order
RECURSIVE SpawnRange(_, _, _, _)
SpawnRange(w, calls, lo, hi) ==
    IF lo > hi THEN w
    ELSE IF lo = hi THEN Spawn(w, calls[lo])
    ELSE LET mid == (lo + hi) \div 2
         IN  CHOOSE last \in {SpawnRange(first, calls, mid + 1, hi) :
                                 first \in {SpawnRange(w, calls, lo, mid)}} : TRUE

\* Terrain::generate of game.rs, its spawn calls in order: the player in the
\* centre, a vertical section of wall to the east, a horizontal section of
\* wall to the south, the door in the vertical section, a floor everywhere
TerrainCalls(size) ==
    LET centre == <<size[1] \div 2, size[2] \div 2>>
        call(kind, coord) == [kind |-> kind, coord |-> coord]
    IN  << call("player", centre) >>
        \o [k \in 1 .. 11 |-> call("wall", Plus(centre, <<5, (k - 1) - 5>>))]
        \o [k \in 1 .. 10 |-> call("wall", Plus(centre, <<(k - 1) - 5, 5>>))]
        \o << call("door", Plus(centre, <<5, 0>>)) >>
        \o [k \in 1 .. size[1] * size[2] |-> call("floor", RowMajor(size)[k])]

\* Terrain::generate of game.rs: [world, player_entity]
GameTerrain(size) ==
    LET w == CHOOSE last \in {SpawnRange(NewWorld(size), calls, 1, Len(calls)) :
                                 calls \in {TerrainCalls(size)}} : TRUE
    IN  [world |-> w, player_entity |-> 0]

\* VisibleCellData::update: the tile of the entity of each layer at coord
VisibleCellDataUpdate(w, coord) ==
    LET layers == w.spatial_table.grid[coord]
    IN  [layer \in {l \in DOMAIN layers : layers[l] \in DOMAIN w.components.tile} |->
            w.components.tile[layers[layer]]]

\* Game::update_visibility
UpdateVisibility(g) ==
    [g EXCEPT !.visibility_grid =
                  [coord \in DOMAIN g.world.spatial_table.grid |->
                      VisibleCellDataUpdate(g.world, coord)]]

\* Game::open_door keeping the solid component of the door
OpenDoorKeepingSolid(g, entity) ==
    [g EXCEPT !.world.components =
                  ApplyEntityUpdate(@, entity,
                                    [door_state |-> "Open", tile |-> "DoorOpen"],
                                    {"opacity"})]

\* Game::open_door
OpenDoor(g, entity) ==
    [g EXCEPT !.world.components =
                  ApplyEntityUpdate(@, entity,
                                    [door_state |-> "Open", tile |-> "DoorOpen"],
                                    {"solid", "opacity"})]

\* Game::close_door
CloseDoor(g, entity) ==
    [g EXCEPT !.world.components =
                  InsertEntityData(@, entity,
                                   [door_state |-> "Closed", tile |-> "DoorClosed",
                                    solid |-> TRUE, opacity |-> 255])]

\* whether the door_state of the entity is the given one
DoorStateIs(g, entity, door_state) ==
    /\ entity \in DOMAIN g.world.components.door_state
    /\ g.world.components.door_state[entity] = door_state

\* Game::open_door_entity_adjacent_to_coord looking at coord itself first
OpenDoorEntityAtOrAdjacentToCoord(g, coord) ==
    LET around == << <<0, 0>> >> \o Directions
        potential(i) == FeatureAt(g.world.spatial_table, Plus(coord, around[i]))
        hits == {i \in 1 .. Len(around) :
                    potential(i) # None /\ DoorStateIs(g, potential(i)[1], "Open")}
    IN  IF hits = {} THEN None
        ELSE potential(CHOOSE i \in hits : \A j \in hits : i <= j)

\* Game::open_door_entity_adjacent_to_coord: the first open door in the order
\* of Direction::all()
OpenDoorEntityAdjacentToCoord(g, coord) ==
    LET potential(i) == FeatureAt(g.world.spatial_table, Plus(coord, Directions[i]))
        hits == {i \in 1 .. Len(Directions) :
                    potential(i) # None /\ DoorStateIs(g, potential(i)[1], "Open")}
    IN  IF hits = {} THEN None
        ELSE potential(CHOOSE i \in hits : \A j \in hits : i <= j)

\* Game::get_player_coord
GetPlayerCoord(g) == CoordOf(g.world.spatial_table, g.player_entity)[1]

\* SpatialTable::update_coord: Some(table) when the entity can be moved, None
\* when coord is outside the grid or its layer at coord is occupied
UpdateCoord(spatial_table, entity, coord) ==
    LET location == spatial_table.location[entity]
    IN  IF coord \notin DOMAIN spatial_table.grid
           \/ location.layer \in DOMAIN spatial_table.grid[coord]
        THEN None
        ELSE Some([location |-> [spatial_table.location EXCEPT ![entity].coord = coord],
                   grid |-> [spatial_table.grid EXCEPT
                                ![location.coord] = Remove(@, location.layer),
                                ![coord] = Insert(@, location.layer, entity)]])

\* Game::try_move_player: [game, panic]
TryMovePlayer(g, direction) ==
    LET player_coord == GetPlayerCoord(g)
        new_player_coord == Plus(player_coord, direction)
        feature == FeatureAt(g.world.spatial_table, new_player_coord)
        moved == UpdateCoord(g.world.spatial_table, g.player_entity, new_player_coord)
    IN  IF feature # None /\ DoorStateIs(g, feature[1], "Closed")
        THEN [game |-> OpenDoor(g, feature[1]), panic |-> FALSE]
        ELSE IF feature # None /\ feature[1] \in g.world.components.solid
        THEN LET open_door_entity == OpenDoorEntityAdjacentToCoord(g, player_coord)
             IN  [game |-> IF open_door_entity # None
                           THEN CloseDoor(g, open_door_entity[1])
                           ELSE g,
                  panic |-> FALSE]
        ELSE IF moved = None
        THEN [game |-> g, panic |-> TRUE]
        ELSE [game |-> [g EXCEPT !.world.spatial_table = moved[1]], panic |-> FALSE]

\* the sizes handed to Game::new: one that holds the walls, one that does not
GameSizes == {<<GameW, GameH>>, <<SmallSide, SmallSide>>}

\* before Game::new
InitGame ==
    /\ world_size \in GameSizes
    /\ pc = "new"
    /\ attempt = 0
    /\ rooms = <<>>
    /\ edge_coords = {}
    /\ door_candidates = <<>>
    /\ map = Unset
    /\ rc_map = Unset
    /\ player_spawn = Unset
    /\ game_of_life = Unset
    /\ life_steps = 0
    /\ cave_map = Unset
    /\ combined_map = Unset
    /\ water_map = Unset
    /\ grass_map = Unset
    /\ world = Unset
    /\ noise = Unset
    /\ rng_log = <<>>
    /\ adding = Unset
    /\ corridor_state = Unset
    /\ fill = Unset
    /\ game = Unset

\* the variables of the terrain generation of terrain.rs
terrain_vars ==
    <<world_size, placement_vars, stage_vars, life_vars, loop_vars, world, noise,
      rng_log>>

\* Game::new
NewGame ==
    /\ pc = "new"
    /\ LET terrain == GameTerrain(world_size)
       IN  IF terrain.world.panic
           THEN Panic
           ELSE /\ game' = UpdateVisibility(
                               [world |-> terrain.world,
                                player_entity |-> terrain.player_entity,
                                visibility_grid |-> NewCopy(world_size, <<>>),
                                config |-> [omniscient |-> TRUE]])
                /\ pc' = "play"
                /\ UNCHANGED terrain_vars

\* Game::move_player, for every direction the application can hand it
MovePlayer ==
    /\ pc = "play"
    /\ \E direction \in SeqToSet(CardinalDirections) :
          LET tried == TryMovePlayer(game, direction)
          IN  IF tried.panic
              THEN Panic
              ELSE /\ game' = UpdateVisibility(tried.game)
                   /\ UNCHANGED <<pc, terrain_vars>>

NextGame == NewGame \/ MovePlayer

SpecGame == InitGame /\ [][NextGame]_vars

-----------------------------------------------------------------------------
(* Properties of the generated map *)

\* remove_invalid_doors has run: the stage-3 grid is final
Repaired == pc \in {"grass", "populate", "done"}

\* the stage-3 grid exists
Composited == pc \in {"water", "prune", "repair", "grass", "populate", "done"}

\* S with every cell of open that a 4-connected path inside open joins to S
RECURSIVE Connected(_, _)
Connected(S, open) ==
    LET T == S \cup {c \in open : \E i \in 1 .. 4 : Plus(c, CardinalDirections[i]) \in S}
    IN  IF T = S THEN S ELSE Connected(T, open)

\* the cells on row 0, the last row, column 0 and the last column
Border == {c \in Coords(world_size) : \/ c[1] = 0
                                      \/ c[2] = 0
                                      \/ c[1] = world_size[1] - 1
                                      \/ c[2] = world_size[2] - 1}

\* C1: after pruning and door repair, every Floor, Door or CaveFloor cell of
\* the stage-3 grid is joined to the spawn coordinate by a 4-connected path
\* whose cells are all non-wall or set in the water mask.
ReachableFromSpawn ==
    Repaired =>
        LET open == {c \in DOMAIN combined_map :
                        combined_map[c] \notin {"Wall", "CaveWall"} \/ water_map[c]}
            reached == Connected({player_spawn}, open)
        IN  \A c \in DOMAIN combined_map :
                combined_map[c] \in {"Floor", "Door", "CaveFloor"} => c \in reached

\* C1 witness: a finished map with a cave floor that only a path over water
\* on walls joins to the spawn
CaveReachedOverWater ==
    /\ pc = "done"
    /\ \E c \in DOMAIN combined_map :
          /\ combined_map[c] = "CaveFloor"
          /\ c \notin Connected({player_spawn},
                                {d \in DOMAIN combined_map :
                                    combined_map[d] \notin {"Wall", "CaveWall"}})

\* the door-validity predicate at c: along one axis both neighbours are
\* Floor or CaveFloor and along the other both are Wall or CaveWall
ValidDoor(m, c) ==
    \E axis \in Axes :
        LET d == NewAxis(1, 0, axis)
            e == NewAxis(0, 1, axis)
        IN  /\ {Plus(c, d), Minus(c, d), Plus(c, e), Minus(c, e)} \subseteq DOMAIN m
            /\ m[Plus(c, d)] \in {"Floor", "CaveFloor"}
            /\ m[Minus(c, d)] \in {"Floor", "CaveFloor"}
            /\ m[Plus(c, e)] \in {"Wall", "CaveWall"}
            /\ m[Minus(c, e)] \in {"Wall", "CaveWall"}

Surrounded(c) ==
    /\ rc_map[c] = "Wall"
    /\ \A i \in 1 .. 8 :
           Plus(c, Directions[i]) \in DOMAIN rc_map => rc_map[Plus(c, Directions[i])] = "Wall"

\* C4: a cell that is Wall with only Wall neighbours in the rooms-and-corridors
\* grid is never plain Wall in the stage-3 grid: it is CaveWall where the cave
\* grid is Wall, and CaveFloor (CaveWall once pruned) where the cave grid is
\* Floor; and every plain Wall of the stage-3 grid has a Floor or Door among
\* its 8 neighbours in the rooms-and-corridors grid.
CaveWallClassification ==
    Composited =>
        \A c \in DOMAIN combined_map :
            /\ Surrounded(c) =>
                   /\ combined_map[c] # "Wall"
                   /\ cave_map[c] = "Wall" => combined_map[c] = "CaveWall"
                   /\ cave_map[c] = "Floor" => combined_map[c] \in {"CaveFloor", "CaveWall"}
                   /\ cave_map[c] = "Floor" /\ pc \in {"water", "prune"}
                          => combined_map[c] = "CaveFloor"
            /\ combined_map[c] = "Wall" =>
                   \E i \in 1 .. 8 :
                       /\ Plus(c, Directions[i]) \in DOMAIN rc_map
                       /\ rc_map[Plus(c, Directions[i])] \in {"Floor", "Door"}

\* C4 witness: a repaired map with a surrounded cell whose cave floor was
\* pruned to CaveWall, a surrounded cell that is CaveWall under a cave wall,
\* and a plain Wall
SurroundedCellsClassified ==
    /\ pc = "grass"
    /\ \E c \in DOMAIN combined_map :
          Surrounded(c) /\ cave_map[c] = "Floor" /\ combined_map[c] = "CaveWall"
    /\ \E c \in DOMAIN combined_map :
          Surrounded(c) /\ cave_map[c] = "Wall" /\ combined_map[c] = "CaveWall"
    /\ \E c \in DOMAIN combined_map : combined_map[c] = "Wall"

\* C5: the water mask returned by make_water_map is false on every cell of row
\* 0, the last row, column 0 and the last column, and stays false there after
\* remove_unreachable_floor.
WaterOffBorder ==
    pc \in {"prune", "repair", "grass", "populate", "done"} =>
        \A c \in Border : ~water_map[c]

\* C5 witness: after the pruning, a mask whose noise had water on the border
\* (trimmed) and keeps water elsewhere
BorderWaterTrimmed ==
    /\ pc = "repair"
    /\ \E c \in Border : noise[c]
    /\ \E c \in DOMAIN water_map : water_map[c]

\* C6: the stage-3 classification of the spawn coordinate is Floor or
\* CaveFloor after composition, after pruning and after door repair.
SpawnIsFloor ==
    Composited => combined_map[player_spawn] \in {"Floor", "CaveFloor"}

\* C6 witness: a finished map whose spawn, the centre of a room, lies in the cave
SpawnInCave ==
    /\ pc = "done"
    /\ combined_map[player_spawn] = "CaveFloor"
    /\ \E i \in 1 .. Len(rooms) : player_spawn = Centre(rooms[i])

\* C7: the post-repair water mask is false at the spawn coordinate, and the
\* terrain spawned under the player is floor or cave floor, never water.
SpawnIsNotWater ==
    /\ Repaired => ~water_map[player_spawn]
    /\ pc = "done" =>
           \A i \in 1 .. Len(world[player_spawn]) :
               world[player_spawn][i] \in {"player", "floor", "cave_floor", "grass"}

\* C8: with a world smaller than the minimum room size the generation does
\* not panic.
SmallWorldDoesNotPanic ==
    (world_size[1] < MIN_ROOM_W \/ world_size[2] < MIN_ROOM_H) => pc # "panicked"

\* the terrains the final loop spawns
BaseTerrains == {"floor", "wall", "door", "cave_floor", "cave_wall", "water"}

\* how many entries of the sequence s are in S
Count(s, S) == Cardinality({i \in 1 .. Len(s) : s[i] \in S})

\* C10: the final loop gives every coordinate exactly one base terrain (floor,
\* wall, door, cave floor, cave wall or water), so it visits it exactly once;
\* the only other entity it adds is grass, at most once, and only on a
\* CaveFloor cell, or a CaveFloor or CaveWall cell under water, whose grass
\* mask is set.
OneTerrainPerCell ==
    pc = "done" =>
        \A c \in Coords(world_size) :
            /\ Count(world[c], BaseTerrains) = 1
            /\ Count(world[c], {"grass"}) <= 1
            /\ \A i \in 1 .. Len(world[c]) :
                   world[c][i] \in BaseTerrains \cup {"grass", "player"}
            /\ Count(world[c], {"grass"}) = 1 =>
                   /\ grass_map[c]
                   /\ \/ combined_map[c] = "CaveFloor"
                      \/ combined_map[c] = "CaveWall" /\ water_map[c]

\* C10 witness: a finished map with grass on a cave wall under water, a wall
\* spawned under water and water spawned on a wall
GrassOnWateredCaveWall ==
    /\ pc = "done"
    /\ \E c \in Coords(world_size) :
          combined_map[c] = "CaveWall" /\ world[c] = <<"water", "grass">>
    /\ \E c \in Coords(world_size) :
          combined_map[c] = "Wall" /\ water_map[c] /\ world[c] = <<"wall">>
    /\ \E c \in Coords(world_size) :
          combined_map[c] = "Wall" /\ world[c] = <<"water">>

-----------------------------------------------------------------------------
(* Properties of the run: determinism and termination *)

\* the order in which Terrain::generate hands rng to its stages
StageRank(stage) ==
    CASE stage = "rooms" -> 1
      [] stage = "cave" -> 2
      [] stage = "water" -> 3
      [] stage = "grass" -> 4
      [] stage = "walls" -> 5

\* the water mask the noise decides: the noise without its water joined to
\* the border
TrimmedNoise ==
    LET wet == {c \in DOMAIN noise : noise[c]}
        joined == Connected(wet \cap Border, wet)
    IN  [c \in DOMAIN noise |-> noise[c] /\ c \notin joined]

\* the stage-3 grid and the water mask that the rooms-and-corridors grid, the
\* spawn, the cave grid and the noise decide
DecidedResult ==
    LET composed == CombineRoomsAndCorridorsLevelWithCave(rc_map, cave_map)
        reached == Connected({player_spawn},
                             {c \in DOMAIN composed :
                                 composed[c] \notin {"Wall", "CaveWall"} \/ TrimmedNoise[c]})
        pruned == [c \in DOMAIN composed |->
                      IF composed[c] = "CaveFloor" /\ c \notin reached
                      THEN "CaveWall" ELSE composed[c]]
    IN  [map |-> [c \in DOMAIN composed |->
                     IF pruned[c] = "Door" /\ ~ValidDoor(pruned, c)
                     THEN "Floor" ELSE pruned[c]],
         water_map |-> [c \in DOMAIN composed |-> TrimmedNoise[c] /\ c \in reached]]

\* C3: the stages draw from rng in one fixed order (rooms and corridors,
\* cave, water mask, grass mask, wall-or-water draws), and the result of a
\* run is decided by the world size and the values drawn: whatever the order
\* in which the hash set of the water trim yields its cells, the trimmed
\* water mask is the one the noise decides, and the final stage-3 grid and
\* water mask are the ones that the drawn rooms-and-corridors grid, spawn,
\* cave grid and noise decide.
DrawsDecideResult ==
    /\ \A i, j \in 1 .. Len(rng_log) :
           i < j => StageRank(rng_log[i]) <= StageRank(rng_log[j])
    /\ pc \in {"prune", "reach_fill"} => water_map = TrimmedNoise
    /\ Repaired => /\ combined_map = DecidedResult.map
                   /\ water_map = DecidedResult.water_map

\* C3 witness: a finished run whose water trim cleared cells of the noise,
\* kept others, and whose wall-or-water draws were made
TrimmedRunFinished ==
    /\ pc = "done"
    /\ \E c \in Border : noise[c]
    /\ \E c \in DOMAIN water_map : water_map[c]
    /\ rng_log[Len(rng_log)] = "walls"

\* no coordinate was put twice on the stack of the flood fill in progress
NoCellPushedTwice ==
    fill # Unset =>
        \A i, j \in 1 .. Len(fill.pushed) : i # j => fill.pushed[i] # fill.pushed[j]

\* C9: every run of Terrain::generate ends (it returns or panics): the loops
\* of l_shaped_corridor_with_first_axis and of the three flood fills reach
\* their exit, and no flood fill pushes a cell twice.
TerminatesPushingOnce ==
    /\ []NoCellPushedTwice
    /\ <>(pc \in {"done", "panicked"})

\* C9 witness: the reachability fill has ended after ten pushes or more on a
\* map of two rooms whose centres share their row (the corridor between them
\* has a zero delta on the Y axis)
FillEndedAfterCorridor ==
    /\ pc = "reach_fill"
    /\ FillEnded(fill)
    /\ Len(fill.pushed) >= 10
    /\ Len(rooms) = 2
    /\ Centre(rooms[1])[2] = Centre(rooms[2])[2]

-----------------------------------------------------------------------------
(* Properties of the room placement *)

\* what a step of the room placement does to the accepted rooms: a rejected
\* call changes nothing, an accepted room has no Floor cell in its rectangle,
\* and the room list only grows by the room being added
RoomStep ==
    /\ (pc = "rooms" /\ pc' = "rooms" /\ attempt' = attempt + 1) =>
           /\ \E c \in RectCoords(adding'.rect) : map[c] = "Floor"
           /\ UNCHANGED <<game, rooms, edge_coords, door_candidates, map>>
    /\ (pc = "rooms" /\ pc' = "connect") =>
           /\ \A c \in RectCoords(adding'.rect) : map[c] # "Floor"
           /\ rooms' = rooms
    /\ rooms' # rooms =>
           /\ pc = "connect"
           /\ rooms' = Append(rooms, adding.rect)

\* C11: try_add_room accepts a room if and only if no cell of its rectangle
\* is Floor in the working grid at the call: a rejected call leaves the room
\* list, the edge coordinates, the door candidates and the grid unchanged,
\* an accepted room is the one appended, and no accepted room's rectangle
\* contains an interior cell of another accepted room.
RoomAcceptedIffNoFloor ==
    /\ [](\A i, j \in 1 .. Len(rooms) :
             i # j => RectCoords(rooms[i]) \cap InternalCoords(rooms[j]) = {})
    /\ [][RoomStep]_vars

\* C11 witness: the second call was rejected after the first was accepted
\* (the rejected rectangle shares no interior cell with the accepted room,
\* it only touches its floor with its edge)
RoomRejectedOnItsEdge ==
    /\ pc = "rooms"
    /\ attempt = 2
    /\ Len(rooms) = 1
    /\ adding # Unset
    /\ InternalCoords(adding.rect) \cap InternalCoords(rooms[1]) = {}

\* the corridor being built or just returned, and its arguments
CorridorRet == corridor_state.ret
CorridorFrom == Centre(adding.rect)
CorridorTo == Centre(adding.chosen[adding.i])

\* the distance between two coordinates, in steps along the axes
Distance(c, d) ==
    (IF c[1] > d[1] THEN c[1] - d[1] ELSE d[1] - c[1])
    + (IF c[2] > d[2] THEN c[2] - d[2] ELSE d[2] - c[2])

\* n lies between a and b
Between(n, a, b) == (a <= n /\ n <= b) \/ (b <= n /\ n <= a)

\* a cardinal neighbour of c is Floor in the working grid
BesideFloor(c) ==
    \E d \in {<<0, 1>>, <<1, 0>>, <<0, -1>>, <<-1, 0>>} :
        Plus(c, d) \in DOMAIN map /\ map[Plus(c, d)] = "Floor"

\* C12: the corridor of l_shaped_corridor_with_first_axis stops at the first
\* traversed cell beside a floor of the map passed in: only its last cell can
\* be beside a floor, consecutive cells are 4-adjacent, every cell lies in
\* the bounding box of start and end, the end is never listed, and a
\* returned corridor whose last cell is not beside a floor ends next to the
\* end coordinate.
CorridorStopsAtFloor ==
    pc = "corridor" =>
        /\ \A i \in 1 .. Len(CorridorRet) :
               /\ i < Len(CorridorRet) => ~BesideFloor(CorridorRet[i])
               /\ i > 1 => Distance(CorridorRet[i - 1], CorridorRet[i]) = 1
               /\ Between(CorridorRet[i][1], CorridorFrom[1], CorridorTo[1])
               /\ Between(CorridorRet[i][2], CorridorFrom[2], CorridorTo[2])
               /\ CorridorRet[i] # CorridorTo
        /\ (/\ corridor_state.leg = 0
            /\ CorridorRet # <<>>
            /\ ~BesideFloor(CorridorRet[Len(CorridorRet)])) =>
               Distance(CorridorRet[Len(CorridorRet)], CorridorTo) = 1

\* C12 witness: a returned corridor that turns (it has cells on two columns
\* and on two rows) and stops beside the floor of the first room
CorridorTurnsAndStops ==
    /\ pc = "corridor"
    /\ corridor_state.leg = 0
    /\ Len(CorridorRet) >= 3
    /\ BesideFloor(CorridorRet[Len(CorridorRet)])
    /\ \E i, j \in 1 .. Len(CorridorRet) : CorridorRet[i][1] # CorridorRet[j][1]
    /\ \E i, j \in 1 .. Len(CorridorRet) : CorridorRet[i][2] # CorridorRet[j][2]

\* C13: the corridor of l_shaped_corridor_with_first_axis never lists its
\* start coordinate.
CorridorSkipsStart ==
    pc = "corridor" =>
        \A i \in 1 .. Len(CorridorRet) : CorridorRet[i] # CorridorFrom

\* the cell c is on a recorded room edge and has the shape of a corridor in
\* the grid m: Floor on both sides along one axis, Wall on both sides along
\* the other
OnEdgeInCorridor(m, edges, c) ==
    /\ c \in edges
    /\ \E a \in {<<1, 0>>, <<0, 1>>} :
          /\ m[Plus(c, a)] = "Floor" /\ m[Minus(c, a)] = "Floor"
          /\ m[Plus(c, <<a[2], a[1]>>)] = "Wall" /\ m[Minus(c, <<a[2], a[1]>>)] = "Wall"

\* the elements of the sequence s at the indices I, in the order of s
AtIndices(s, I) ==
    [k \in 1 .. Cardinality(I) |->
        s[CHOOSE i \in I : Cardinality({j \in I : j < i}) = k - 1]]

\* the first cells of the maximal runs of qualifying cells of the corridor s
FirstsOfRuns(s, m, edges) ==
    AtIndices(s, {i \in 1 .. Len(s) :
                     /\ OnEdgeInCorridor(m, edges, s[i])
                     /\ i > 1 => ~OnEdgeInCorridor(m, edges, s[i - 1])})

\* the last cells of the maximal runs of qualifying cells of the corridor s
LastsOfRuns(s, m, edges) ==
    AtIndices(s, {i \in 1 .. Len(s) :
                     /\ OnEdgeInCorridor(m, edges, s[i])
                     /\ i < Len(s) => ~OnEdgeInCorridor(m, edges, s[i + 1])})

\* try_add_room has carved the returned corridor and scanned it
CorridorScanned == pc = "corridor" /\ pc' = "connect"

\* C14 as stated: the scan of a carved corridor adds one door candidate for
\* every maximal run of qualifying cells, the first cell of the run.
OneCandidatePerRunTheFirst ==
    [][CorridorScanned =>
          door_candidates' =
              door_candidates \o FirstsOfRuns(CorridorRet, map', edge_coords)]_vars

\* C14 amended: the scan of a carved corridor adds one door candidate for
\* every maximal run of qualifying cells, the last cell of the run.
OneCandidatePerRunTheLast ==
    [][CorridorScanned =>
          door_candidates' =
              door_candidates \o LastsOfRuns(CorridorRet, map', edge_coords)]_vars

\* C14 witness: the scan has added one candidate for a run of two qualifying
\* cells or more (a cell beside the candidate qualifies and was not added)
RunOfCandidatesCollapsed ==
    /\ pc = "connect"
    /\ adding # Unset
    /\ adding.i = 2
    /\ Len(door_candidates) = 1
    /\ \E d \in {<<0, 1>>, <<1, 0>>, <<0, -1>>, <<-1, 0>>} :
          OnEdgeInCorridor(map, edge_coords, Plus(door_candidates[1], d))

-----------------------------------------------------------------------------
(* Properties of the cave automaton and of the cave grid *)

\* the number of cells live in the grid g among the eight around c, a cell
\* outside the grid counting as dead
LiveAround(g, c) ==
    Cardinality({d \in (DOMAIN g) \ {c} :
                    /\ d[1] - c[1] \in -1 .. 1
                    /\ d[2] - c[2] \in -1 .. 1
                    /\ g[d]})

\* C15: GameOfLife::step computes the next generation from the pre-step grid
\* only: a cell is live after the step iff it was live with 4 to 8 live
\* neighbours or dead with exactly 5 (survive_min..survive_max,
\* resurrect_min..resurrect_max), cells outside the grid counting as dead,
\* and the computed grid is the live one after the step.
StepFollowsRule ==
    [][life_steps' = life_steps + 1 =>
          \A c \in DOMAIN game_of_life.alive :
              game_of_life'.alive[c] <=>
                  \/ game_of_life.alive[c] /\ LiveAround(game_of_life.alive, c) \in 4 .. 8
                  \/ ~game_of_life.alive[c] /\ LiveAround(game_of_life.alive, c) = 5]_vars

\* C15 witness: the first step has made a dead cell live and a live cell
\* dead, and has kept a live cell on the border (next is the pre-step grid)
StepBornAndDied ==
    /\ life_steps = 1
    /\ \E c \in DOMAIN game_of_life.alive : game_of_life.alive[c] /\ ~game_of_life.next[c]
    /\ \E c \in DOMAIN game_of_life.alive : ~game_of_life.alive[c] /\ game_of_life.next[c]
    /\ game_of_life.alive[<<0, 1>>] /\ game_of_life.next[<<0, 1>>]

\* the grid of the automaton with its outer border forced to Wall
Bordered ==
    [c \in DOMAIN game_of_life.alive |->
        IF c \in Border \/ ~game_of_life.alive[c] THEN "Wall" ELSE "Floor"]

\* C16: the grid returned by generate_cave_map has every outer-border cell
\* Wall, its Wall cells are exactly the cells joined to the top-left corner
\* through Wall cells of the bordered grid (every other Wall cell became
\* Floor), no Floor cell of the bordered grid was changed, and the assertion
\* on the top-left cell does not fail.
CaveWallsJoinCorner ==
    /\ pc # "panicked"
    /\ cave_map # Unset =>
           /\ \A c \in Border : cave_map[c] = "Wall"
           /\ \A c \in DOMAIN cave_map :
                  cave_map[c] = "Wall" <=>
                      c \in Connected({<<0, 0>>}, {d \in DOMAIN Bordered : Bordered[d] = "Wall"})
           /\ \A c \in DOMAIN cave_map : Bordered[c] = "Floor" => cave_map[c] = "Floor"

\* C16 witness: a Wall cell enclosed by Floor cells became Floor, a Wall
\* cell joined to the corner was kept, and live cells of the border were
\* forced to Wall
EnclosedWallBecameFloor ==
    /\ cave_map # Unset
    /\ \E c \in DOMAIN cave_map : ~game_of_life.alive[c] /\ cave_map[c] = "Floor"
    /\ \E c \in DOMAIN cave_map \ Border : ~game_of_life.alive[c] /\ cave_map[c] = "Wall"
    /\ \E c \in Border : game_of_life.alive[c]

-----------------------------------------------------------------------------
(* Properties of the compositor, the pruning and the final classification *)

\* C17: combine_rooms_and_corridors_level_with_cave decides each cell from
\* the two grids: CaveFloor iff the cave grid says Floor (also over a Door),
\* and where the cave grid says Wall, Floor for Floor, Door for Door, and for
\* Wall CaveWall if all the in-grid 8-neighbours in the rooms-and-corridors
\* grid are Wall and plain Wall otherwise.
CombineIsCellwise ==
    pc \in {"water", "prune"} =>
        \A c \in DOMAIN combined_map :
            /\ combined_map[c] = "CaveFloor" <=> cave_map[c] = "Floor"
            /\ cave_map[c] = "Wall" =>
                   combined_map[c] =
                       CASE rc_map[c] = "Floor" -> "Floor"
                         [] rc_map[c] = "Door" -> "Door"
                         [] rc_map[c] = "Wall" ->
                                IF \A d \in DOMAIN rc_map :
                                       (d # c /\ d[1] - c[1] \in -1 .. 1
                                               /\ d[2] - c[2] \in -1 .. 1) =>
                                           rc_map[d] = "Wall"
                                THEN "CaveWall" ELSE "Wall"

\* C17 witness: the combined grid has a CaveFloor over a Door of the
\* rooms-and-corridors grid, a Floor, a plain Wall and a CaveWall
CaveFloorOverDoor ==
    /\ pc = "water"
    /\ \E c \in DOMAIN combined_map : rc_map[c] = "Door" /\ combined_map[c] = "CaveFloor"
    /\ \A t \in {"Floor", "Wall", "CaveWall"} :
           \E c \in DOMAIN combined_map : combined_map[c] = t

\* the cells remove_unreachable_floor is to reach in the grids it is given:
\* the spawn and the cells joined to it through cells that are not walls or
\* are set in the water mask
Reached ==
    Connected({player_spawn},
              {c \in DOMAIN combined_map :
                  combined_map[c] \notin {"Wall", "CaveWall"} \/ water_map[c]})

\* remove_unreachable_floor has run
Pruned == pc = "prune" /\ pc' = "repair"

TerrainOf(cell) ==
    CASE cell = "Floor" -> "floor"
      [] cell = "Wall" -> "wall"
      [] cell = "Door" -> "door"
      [] cell = "CaveFloor" -> "cave_floor"
      [] cell = "CaveWall" -> "cave_wall"

\* the terrain entities spawned at c: all but the grass and the player
TerrainsAt(c) == {world[c][i] : i \in 1 .. Len(world[c])} \ {"grass", "player"}

\* C19: in the final classification a cell whose water flag is set yields
\* water, or wall or water if it is a Wall, never a floor, door, cave floor
\* or cave wall (a Door under water is emitted as water); a cell whose water
\* flag is clear keeps its stage-3 classification.
WaterHidesTerrain ==
    pc = "done" =>
        \A c \in DOMAIN combined_map :
            IF water_map[c]
            THEN IF combined_map[c] = "Wall"
                 THEN TerrainsAt(c) \in {{"wall"}, {"water"}}
                 ELSE TerrainsAt(c) = {"water"}
            ELSE TerrainsAt(c) = {TerrainOf(combined_map[c])}

\* C19 witness: a finished run with a Door of the stage-3 grid under water,
\* emitted as water, and a Door out of water, emitted as a door
DoorUnderWater ==
    /\ pc = "done"
    /\ \E c \in DOMAIN combined_map :
          combined_map[c] = "Door" /\ water_map[c] /\ world[c] = <<"water">>

\* the first iteration of the loop over the room attempts, when Rect::choose
\* returns, enters the loop of try_add_room; the unwrap of the chosen room
\* does not panic
FirstAttemptStep ==
    /\ (pc = "rooms" /\ attempt = 0 /\ pc' # "panicked") =>
           /\ pc' = "connect"
           /\ \A c \in RectCoords(adding'.rect) : map[c] = "Wall"
    /\ pc = "spawn" => pc' # "panicked"

\* C20: when Rect::choose can draw a rectangle the first room attempt is
\* always accepted, the working grid being all Wall, so the list of the
\* accepted rooms is not empty once an attempt is over nor when the spawn
\* room is chosen, and the unwrap of the chosen room never panics.
FirstRoomAlwaysAccepted ==
    /\ [](attempt >= 1 => rooms # <<>>)
    /\ [](pc = "spawn" => rooms # <<>>)
    /\ [][FirstAttemptStep]_vars

\* C20 witness: the spawn room is about to be chosen and the only accepted
\* room is the first one, every later attempt having been rejected
OnlyFirstRoomAtSpawn ==
    /\ pc = "spawn"
    /\ attempt = NumRoomAttempts
    /\ Len(rooms) = 1

-----------------------------------------------------------------------------
(* Properties of the moves of the player *)

\* the coordinate of the player and the feature entity at a coordinate
PlayerCoord == GetPlayerCoord(game)
FeatureOf(g, coord) == FeatureAt(g.world.spatial_table, coord)

\* the components of an entity in a game
ComponentsOf(g, e) ==
    LET c == g.world.components
    IN  [tile |-> IF e \in DOMAIN c.tile THEN Some(c.tile[e]) ELSE None,
         solid |-> e \in c.solid,
         door_state |-> IF e \in DOMAIN c.door_state THEN Some(c.door_state[e]) ELSE None,
         opacity |-> IF e \in DOMAIN c.opacity THEN Some(c.opacity[e]) ELSE None,
         light |-> e \in c.light]

\* the door is open in g: state Open, tile DoorOpen, neither solid nor opaque
IsOpened(g, door) ==
    ComponentsOf(g, door) = [tile |-> Some("DoorOpen"), solid |-> FALSE,
                             door_state |-> Some("Open"), opacity |-> None,
                             light |-> FALSE]

\* after differs from before by the opening of the door only
OnlyOpened(before, after, door) ==
    /\ IsOpened(after, door)
    /\ after.world.spatial_table = before.world.spatial_table
    /\ after.world.entity_allocator = before.world.entity_allocator
    /\ after.player_entity = before.player_entity
    /\ \A e \in DOMAIN before.world.spatial_table.location \ {door} :
          ComponentsOf(after, e) = ComponentsOf(before, e)

\* try_move_player towards a closed door, and the same move made again
BumpsOpenTheDoor ==
    pc = "play" =>
        \A direction \in SeqToSet(CardinalDirections) :
            LET target == Plus(PlayerCoord, direction)
                door == FeatureOf(game, target)
                tried == TryMovePlayer(game, direction)
                again == TryMovePlayer(tried.game, direction)
            IN  (door # None /\ DoorStateIs(game, door[1], "Closed")) =>
                    /\ ~tried.panic
                    /\ OnlyOpened(game, tried.game, door[1])
                    /\ GetPlayerCoord(tried.game) = PlayerCoord
                    /\ ~again.panic
                    /\ GetPlayerCoord(again.game) = target
                    /\ IsOpened(again.game, door[1])

\* a move that opens a door changes nothing else, and the player never
\* enters a cell whose door is closed before the move
DoorStep ==
    (pc = "play" /\ pc' = "play") =>
        /\ \A door \in DOMAIN game.world.components.door_state :
              (DoorStateIs(game, door, "Closed") /\ ~DoorStateIs(game', door, "Closed")) =>
                  /\ OnlyOpened(game, game', door)
                  /\ \E direction \in SeqToSet(CardinalDirections) :
                        FeatureOf(game, Plus(PlayerCoord, direction)) = Some(door)
        /\ GetPlayerCoord(game') # PlayerCoord =>
              LET entered == FeatureOf(game, GetPlayerCoord(game'))
              IN  entered # None => ~DoorStateIs(game, entered[1], "Closed")

\* C21: when the player moves towards a cell that holds a closed door,
\* try_move_player opens that door (state Open, tile DoorOpen, solid and
\* opacity removed) and leaves the coordinate of the player and every other
\* entity unchanged; the player enters the cell of the door only on a later
\* move, when the door is already open.
BumpOpensDoorOnly ==
    /\ []BumpsOpenTheDoor
    /\ [][DoorStep]_vars

\* C21 witness: the door has been opened and the player stands beside it,
\* not in its cell
DoorOpenedByBump ==
    /\ pc = "play"
    /\ FeatureOf(game, PlayerCoord) = None
    /\ \E direction \in SeqToSet(CardinalDirections) :
          LET door == FeatureOf(game, Plus(PlayerCoord, direction))
          IN  door # None /\ DoorStateIs(game, door[1], "Open")

\* the feature entity at coord is solid
SolidAt(g, coord) ==
    /\ FeatureOf(g, coord) # None
    /\ FeatureOf(g, coord)[1] \in g.world.components.solid

\* the door is closed in g: state Closed, tile DoorClosed, solid and opaque
IsClosed(g, door) ==
    ComponentsOf(g, door) = [tile |-> Some("DoorClosed"), solid |-> TRUE,
                             door_state |-> Some("Closed"), opacity |-> Some(255),
                             light |-> FALSE]

\* a move that closes a door is a bump into a solid feature, it closes a
\* door in one of the 8 cells around the player and changes nothing else
CloseStep ==
    (pc = "play" /\ pc' = "play") =>
        \A door \in DOMAIN game.world.components.door_state :
            (DoorStateIs(game, door, "Open") /\ ~DoorStateIs(game', door, "Open")) =>
                /\ IsClosed(game', door)
                /\ \E direction \in SeqToSet(CardinalDirections) :
                      SolidAt(game, Plus(PlayerCoord, direction))
                /\ \E direction \in SeqToSet(Directions) :
                      FeatureOf(game, Plus(PlayerCoord, direction)) = Some(door)
                /\ FeatureOf(game, PlayerCoord) # Some(door)
                /\ game'.world.spatial_table = game.world.spatial_table
                /\ \A e \in DOMAIN game.world.spatial_table.location \ {door} :
                      ComponentsOf(game', e) = ComponentsOf(game, e)

\* C22: the player never walks through solid entities: after any sequence
\* of move_player calls the cell of the player holds no feature entity with
\* the solid component; a bump into a solid feature closes an open door in
\* one of the 8 cells around the player, never a door in the cell of the
\* player.
PlayerNeverInSolid ==
    /\ [](game # Unset => ~SolidAt(game, PlayerCoord))
    /\ [][CloseStep]_vars

\* C22 witness: the player stands in the cell of the open door, between the
\* walls to its north and to its south, which it can bump into
PlayerInDoorwayBetweenWalls ==
    /\ pc = "play"
    /\ FeatureOf(game, PlayerCoord) # None
    /\ DoorStateIs(game, FeatureOf(game, PlayerCoord)[1], "Open")
    /\ SolidAt(game, Plus(PlayerCoord, <<0, -1>>))
    /\ SolidAt(game, Plus(PlayerCoord, <<0, 1>>))

-----------------------------------------------------------------------------
(* Properties of the grid of the room placement *)

\* the Floor cells of the working grid
FloorOfMap == {c \in DOMAIN map : map[c] = "Floor"}

\* the Floor cells that are the floor of no accepted room
CorridorFloor ==
    FloorOfMap \ UNION {InternalCoords(rooms[i]) : i \in 1 .. Len(rooms)}

\* C23: after every completed try_add_room call the Floor cells of the
\* working grid (the floors of the rooms and the carved corridors) form a
\* single 4-connected region.
FloorIsOneRegion ==
    (pc = "rooms" /\ FloorOfMap # {}) =>
        Connected({CHOOSE c \in FloorOfMap : TRUE}, FloorOfMap) = FloorOfMap

\* C23 witness: three rooms are accepted, joined by corridors
ThreeRoomsJoined ==
    /\ pc = "rooms"
    /\ Len(rooms) = 3
    /\ CorridorFloor # {}

-----------------------------------------------------------------------------
(* Properties of the border of the world *)

-----------------------------------------------------------------------------
(* Properties of the bounds-checked reads *)

\* the four cardinal neighbours of c are in the grid
NeighboursInGrid(c) ==
    \A i \in 1 .. Len(CardinalDirections) : Plus(c, CardinalDirections[i]) \in DOMAIN map

\* the cells around which has_floor_neighbour, is_cell_in_corridor_axis and
\* is_valid_door_position_axis read: the cells of the corridor in progress,
\* the carved corridors, the door candidates and the doors of the grids
CellsReadAround ==
    (IF corridor_state # Unset
     THEN SeqToSet(corridor_state.ret) \cup {corridor_state.current}
     ELSE {})
    \cup CorridorFloor
    \cup SeqToSet(door_candidates)
    \cup (IF rc_map # Unset THEN {c \in DOMAIN rc_map : rc_map[c] = "Door"} ELSE {})
    \cup (IF combined_map # Unset
         THEN {c \in DOMAIN combined_map : combined_map[c] = "Door"}
         ELSE {})

\* the program panics only where Rect::choose cannot draw a rectangle
PanicStep ==
    (pc # "panicked" /\ pc' = "panicked") =>
        /\ pc = "rooms"
        /\ \E w \in MIN_ROOM_W .. MaxRoomW - 1, h \in MIN_ROOM_H .. MaxRoomH - 1 :
              ChoosePanics(world_size, w, h)

\* C25: no bounds-checked grid access fails during generation: every
\* rectangle drawn by Rect::choose lies inside the grid, and every corridor
\* cell, door candidate and Door cell has its four cardinal neighbours
\* inside the grid, so no get_checked read panics.
NoCheckedReadFails ==
    /\ [](adding # Unset => RectCoords(adding.rect) \subseteq DOMAIN map)
    /\ [](\A i \in 1 .. Len(rooms) : RectCoords(rooms[i]) \subseteq DOMAIN map)
    /\ [](\A c \in CellsReadAround : NeighboursInGrid(c))
    /\ [][PanicStep]_vars

\* C25 witness: a finished run with a Door in the stage-3 grid, whose
\* validity was read, and a room on the left or top border of the grid
DoorKeptBesideBorderRoom ==
    /\ pc = "done"
    /\ \E c \in DOMAIN combined_map : combined_map[c] = "Door"
    /\ door_candidates # <<>>
    /\ \E i \in 1 .. Len(rooms) : EdgeCoords(rooms[i]) \cap Border # {}

====
